---- MODULE Spec2Model ----
(***************************************************************************)
(* Reliable UDP (RoySenpai/Reliable-UDP): RUDP_Socket_p,                   *)
(* src/src/rudp_lib.cpp and src/src/include/RUDP_API_wrap.hpp.  A client   *)
(* and a server socket are constructed and configured, connect() and       *)
(* accept() open a connection, send() and recv() exchange messages and     *)
(* disconnect() closes it, over datagram queues that can lose and delay    *)
(* datagrams and that a third host can send to.  A call is cut at the      *)
(* points where the code blocks (poll, recvfrom): one action runs the code *)
(* from one blocking point to the next.  The packet codec, the bytes of a  *)
(* datagram with their checksum, has a section and a specification of its  *)
(* own.                                                                    *)
(***************************************************************************)
EXTENDS Integers, Sequences, FiniteSets, TLC

(***************************************************************************)
(* Program constants.                                                      *)
(***************************************************************************)
HEADER_SIZE == 12
SYN_PACKET_SIZE == 8
RUDP_MINIMAL_MTU == HEADER_SIZE + SYN_PACKET_SIZE
RUDP_MINIMAL_TIMEOUT == 10

RUDP_MTU_DEFAULT == 1458

RUDP_FLAG_SYN == 1
RUDP_FLAG_ACK == 2
RUDP_FLAG_PSH == 4
RUDP_FLAG_LAST == 8
RUDP_FLAG_FIN == 16

\* UINT32_MAX, the initial prev_seq_num of send and recv.  TLC integers are
\* 32-bit signed, so the all-ones word is held as its two's-complement
\* representative; it is only ever compared for equality with sequence
\* numbers, which stay far below 2^31 here.
UINT32_MAX == -1

\* 2^16: packet_size in recv is a uint16_t, an assignment to it keeps the low
\* 16 bits.
UINT16_RANGE == 65536

(***************************************************************************)
(* Bounds of the model.                                                    *)
(***************************************************************************)
\* messages are up to MaxSegs segments of the smallest segment size long
MaxSegs == 3
\* m_protocolMaximumRetries is 1 or MaxRetries
MaxRetries == 2
\* datagrams queued towards one socket; one sent to a full queue is lost
MaxInFlight == 2
\* calls of send (and of recv) per endpoint in the specification SpecCalls
MaxCalls == 2
\* datagrams the third host sends in the specification SpecLife
MaxStray == 1
\* calls of the two endpoints together in the specification SpecLife
MaxLifeCalls == 4
\* calls of the two endpoints together in the specification SpecConfig
MaxConfigCalls == 4

\* calls of both endpoints together within a session
MaxSessionCalls == 3

Endpoints == {"client", "server"}

Peer(e) == IF e = "client" THEN "server" ELSE "client"

Min(a, b) == IF a < b THEN a ELSE b

\* the configured MTUs: the smallest one and one that gives a longer segment
MTUs == {RUDP_MINIMAL_MTU, RUDP_MINIMAL_MTU + 1}

RetrySet == {1, MaxRetries}

\* payload bytes of a segment at the smallest MTU
MinSeg == RUDP_MINIMAL_MTU - HEADER_SIZE

\* message lengths: every multiple of the smallest segment size, and one more
Lens == {q * MinSeg + r : q \in 0 .. (MaxSegs - 1), r \in 0 .. 1}

\* capacities of the buffer handed to recv: the segment boundaries and the
\* longest message
Caps == {q * MinSeg : q \in 0 .. (MaxSegs - 1)} \cup {(MaxSegs - 1) * MinSeg + 1}

\* the longest message
MaxLen == (MaxSegs - 1) * MinSeg + 1

\* byte j (from 1) of the k-th message an endpoint sends: all different, none 0
Message(k, len) == [j \in 1 .. len |-> k * (MaxLen + 1) + j]

VARIABLES
    m_isConnected,             \* endpoint -> BOOLEAN
    m_protocolMTU,             \* endpoint -> configured MTU
    m_peersMTU,                \* endpoint -> MTU learnt from the peer's SYN
    m_protocolMaximumRetries,  \* endpoint -> retry budget
    m_destinationAddress4,     \* endpoint -> address of the peer
    net,                       \* endpoint -> datagrams on their way to its socket
    pc,                        \* endpoint -> where its current call stands
    op,                        \* endpoint -> the call it runs or ran last
    loc,                       \* endpoint -> local variables of that call
    ret,                       \* endpoint -> value the last call returned
    obs,                       \* endpoint -> what the call put on the wire and in memory
    calls,                     \* endpoint -> number of calls started
    msgs,                      \* endpoint -> the buffers passed to send, in order
    m_protocolTimeout,         \* endpoint -> configured timeout in milliseconds
    outside,                   \* endpoint -> datagrams it sent to addresses of no endpoint
    strays,                    \* number of datagrams a third host has sent so far
    wire,                      \* the datagrams passed to sendto so far, in order
    raw                        \* a datagram as bytes, from sendto to the validator

vars == <<m_isConnected, m_protocolMTU, m_peersMTU, m_protocolMaximumRetries,
          m_destinationAddress4, net, pc, op, loc, ret, obs, calls, msgs,
          m_protocolTimeout, outside, strays, wire, raw>>

cfg == <<m_protocolMTU, m_peersMTU, m_protocolMaximumRetries, m_destinationAddress4,
         m_protocolTimeout>>

(***************************************************************************)
(* Packets.  A datagram is a header (seq_num, length, flags) and a payload;*)
(* src is the address recvfrom reports.  Datagrams arrive whole or not at  *)
(* all, so the stored checksum always equals the recomputed one.           *)
(***************************************************************************)
HasFlag(flags, bit) == (flags \div bit) % 2 = 1

\* bytes from (0-based) offset from, n of them, of a buffer
Slice(buffer, from, n) == [j \in 1 .. n |-> buffer[from + j]]

\* a 16-bit field in network byte order, and back
htons(v) == <<v \div 256, v % 256>>

ntohs(data, at) ==
    (IF at <= Len(data) THEN data[at] ELSE 0) * 256
        + (IF at + 1 <= Len(data) THEN data[at + 1] ELSE 0)

\* the RUDP_SYN_packet an endpoint puts in its SYN and SYN|ACK
syn_packet(e) ==
    htons(m_protocolMTU[e]) \o htons(m_protocolTimeout[e])
        \o htons(m_protocolMaximumRetries[e]) \o htons(0)

\* _send_control_packet: header only, length 0; with SYN in the flags the
\* payload is the endpoint's RUDP_SYN_packet
send_control_packet(e, flags, seq_num, destination) ==
    [to |-> destination,
     pkt |-> IF HasFlag(flags, RUDP_FLAG_SYN)
             THEN [src |-> e, flags |-> flags, seq_num |-> seq_num,
                   length |-> SYN_PACKET_SIZE, data |-> syn_packet(e)]
             ELSE [src |-> e, flags |-> flags, seq_num |-> seq_num,
                   length |-> 0, data |-> <<>>]]

\* the log of the wire: when it is kept (on), every datagram passed to sendto
\* joins it with its flags, sequence number and payload length
Untraced == [on |-> FALSE, log |-> <<>>]

Traced == [on |-> TRUE, log |-> <<>>]

RECURSIVE on_wire(_, _)
on_wire(w, ds) ==
    IF ~w.on \/ ds = <<>> THEN w
    ELSE on_wire([w EXCEPT !.log = Append(@, [flags |-> Head(ds).pkt.flags,
                                               seq_num |-> Head(ds).pkt.seq_num,
                                               length |-> Head(ds).pkt.length])],
                 Tail(ds))

\* the datagrams among ds that go to an address where no endpoint listens
RECURSIVE to_outside(_)
to_outside(ds) ==
    IF ds = <<>> THEN <<>>
    ELSE IF Head(ds).to \in Endpoints THEN to_outside(Tail(ds))
    ELSE <<[to |-> Head(ds).to, flags |-> Head(ds).pkt.flags]>> \o to_outside(Tail(ds))

\* sendto: the datagram joins the destination's queue, or is lost when the
\* queue is full or nobody listens at the address
sendto(nt, d) ==
    IF d.to \in Endpoints /\ Len(nt[d.to]) < MaxInFlight
    THEN [nt EXCEPT ![d.to] = Append(@, d.pkt)]
    ELSE nt

RECURSIVE sendall(_, _)
sendall(nt, ds) == IF ds = <<>> THEN nt ELSE sendall(sendto(nt, Head(ds)), Tail(ds))

\* no test of the source: every datagram is taken for the peer's
check_packet_source_any(e, pkt) == FALSE

\* _check_packet_source: nonzero when the datagram is not from the peer
check_packet_source(e, pkt) == pkt.src # m_destinationAddress4[e]

\* a validator without the rule for a bare FIN: the FIN falls under the rule
\* of the flags
check_packet_validity_without_fin(e, pkt, expected_flags) ==
    LET packet_size == HEADER_SIZE + Len(pkt.data)
    IN  IF packet_size < HEADER_SIZE THEN 0
        ELSE IF pkt.length # packet_size - HEADER_SIZE THEN 0
        ELSE IF /\ expected_flags # 0
                /\ pkt.flags # expected_flags
                /\ ~HasFlag(pkt.flags, RUDP_FLAG_LAST)
                /\ ~HasFlag(pkt.flags, RUDP_FLAG_PSH)
             THEN 0
        ELSE 1

\* _check_packet_validity: 1 accept, 0 drop, -1 peer closed.  With the result
\* -1 on a connected endpoint the code also sends FIN|ACK and clears
\* m_isConnected (the actions do that).
check_packet_validity(e, pkt, expected_flags) ==
    LET packet_size == HEADER_SIZE + Len(pkt.data)
    IN  IF packet_size < HEADER_SIZE THEN 0
        ELSE IF pkt.length # packet_size - HEADER_SIZE THEN 0
        ELSE IF /\ pkt.flags = RUDP_FLAG_FIN
                /\ expected_flags # RUDP_FLAG_FIN
                /\ expected_flags # RUDP_FLAG_FIN + RUDP_FLAG_ACK
             THEN IF ~m_isConnected[e]
                  THEN (IF HasFlag(expected_flags, RUDP_FLAG_SYN) THEN -1 ELSE 0)
                  ELSE -1
        ELSE IF /\ expected_flags # 0
                /\ pkt.flags # expected_flags
                /\ ~HasFlag(pkt.flags, RUDP_FLAG_LAST)
                /\ ~HasFlag(pkt.flags, RUDP_FLAG_PSH)
             THEN 0
        ELSE 1

(***************************************************************************)
(* Local variables of a call and what it was seen to do.                   *)
(***************************************************************************)
\* the locals of send and recv that decide what the call does (the counters
\* that only feed debug output, total_actual_bytes and dup_packets, are left
\* out)
NoLocals ==
    [buffer |-> <<>>, buffer_size |-> 0, total_packets |-> 0,
     total_actual_packets |-> 0, expected_packets |-> 0,
     prev_seq_num |-> UINT32_MAX, total_bytes |-> 0, retry_packets |-> 0,
     i |-> 0, num_of_tries |-> 0]

\* emitted: the data segments the send call passed to sendto;
\* accepted: the segments the recv call took, in order; acked: the sequence
\* numbers of the ACKs the recv call sent; overrun: the memcpy calls of recv
\* that wrote past the end of the user buffer
NoObs == [emitted |-> {}, accepted |-> <<>>, acked |-> {}, overrun |-> {}]

\* the outcome of one step of a call: where the call stands, its locals, the
\* value returned (when pc is "returned"), m_isConnected, the datagrams
\* passed to sendto in order, and the observations
Outcome(p, l, r, connected, tx, o) ==
    [pc |-> p, loc |-> l, ret |-> r, connected |-> connected, tx |-> tx, obs |-> o]

Finish(e, r, nt) ==
    /\ pc' = [pc EXCEPT ![e] = r.pc]
    /\ loc' = [loc EXCEPT ![e] = r.loc]
    /\ ret' = [ret EXCEPT ![e] = r.ret]
    /\ obs' = [obs EXCEPT ![e] = r.obs]
    /\ m_isConnected' = [m_isConnected EXCEPT ![e] = r.connected]
    /\ net' = sendall(nt, r.tx)
    /\ outside' = [outside EXCEPT ![e] = @ \o to_outside(r.tx)]
    /\ wire' = on_wire(wire, r.tx)
    /\ raw' = raw
    /\ UNCHANGED cfg

\* a call may start when no call is running; an exception is not caught and
\* ends the caller
CanCall(e) == pc[e] \in {"idle", "returned"}

(***************************************************************************)
(* send                                                                    *)
(***************************************************************************)
\* std::min(m_protocolMTU, m_peersMTU) - sizeof(RUDP_header)
segment_size(e) == Min(m_protocolMTU[e], m_peersMTU[e]) - HEADER_SIZE

\* expected_packets as a rounded-up quotient: the fault the segment-count
\* property is tested against
expected_packets_ceil(buffer_size, seg) ==
    IF buffer_size = 0 THEN 1 ELSE (buffer_size + seg - 1) \div seg

\* expected_packets of send
expected_packets(buffer_size, seg) == (buffer_size \div seg) + 1

\* packet_size of the segment built at the top of the loop over i
send_packet_size(e, l) == Min(l.buffer_size - l.total_bytes, segment_size(e))

\* a sender that never sets LAST: the fault the empty-send property is tested
\* against
send_flags_no_last(l) == RUDP_FLAG_PSH

\* flags of the segment built in iteration i
send_flags(l) ==
    IF l.i = l.expected_packets - 1
    THEN RUDP_FLAG_PSH + RUDP_FLAG_LAST
    ELSE RUDP_FLAG_PSH

\* the data packet of iteration i
data_packet(e, l) ==
    [src |-> e, flags |-> send_flags(l), seq_num |-> l.total_packets,
     length |-> send_packet_size(e, l),
     data |-> Slice(l.buffer, l.total_bytes, send_packet_size(e, l))]

\* the body of the retry loop up to poll, entered with num_of_tries set
send_attempt(e, l, o, tx) ==
    IF l.num_of_tries = m_protocolMaximumRetries[e]
    THEN Outcome("thrown", l, 0, TRUE, tx, o)
    ELSE Outcome("send_poll",
                 [l EXCEPT !.retry_packets = IF l.num_of_tries > 0 THEN @ + 1 ELSE @,
                           !.total_actual_packets = @ + 1],
                 0, TRUE,
                 Append(tx, [to |-> m_destinationAddress4[e], pkt |-> data_packet(e, l)]),
                 [o EXCEPT !.emitted = @ \cup {[seq_num |-> l.total_packets,
                                                 flags |-> send_flags(l),
                                                 data |-> data_packet(e, l).data]}])

\* the head of the loop over i
send_iteration(e, l, o, tx) ==
    IF l.i < l.expected_packets
    THEN send_attempt(e, [l EXCEPT !.num_of_tries = 0], o, tx)
    ELSE Outcome("returned", l, l.total_bytes, TRUE, tx, o)

\* ACK handling that takes the ACK of the segment in flight for a stale one
\* (<= for <): the fault the progress property is tested against
send_on_ack_stale_current(e, l, o, ack_seq_num) ==
    IF ack_seq_num = l.prev_seq_num /\ l.i # l.expected_packets - 1
    THEN send_iteration(e, [l EXCEPT !.i = @ + 1], o, <<>>)
    ELSE IF ack_seq_num <= l.total_packets
    THEN send_attempt(e, [l EXCEPT !.num_of_tries = @ + 1], o, <<>>)
    ELSE send_iteration(e, [l EXCEPT !.prev_seq_num = ack_seq_num,
                                     !.total_bytes = @ + send_packet_size(e, l),
                                     !.total_packets = @ + 1,
                                     !.i = @ + 1], o, <<>>)

\* what send does with a valid ACK carrying ack_seq_num
send_on_ack(e, l, o, ack_seq_num) ==
    IF ack_seq_num = l.prev_seq_num /\ l.i # l.expected_packets - 1
    THEN send_iteration(e, [l EXCEPT !.i = @ + 1], o, <<>>)
    ELSE IF ack_seq_num < l.total_packets
    THEN send_attempt(e, [l EXCEPT !.num_of_tries = @ + 1], o, <<>>)
    ELSE send_iteration(e, [l EXCEPT !.prev_seq_num = ack_seq_num,
                                     !.total_bytes = @ + send_packet_size(e, l),
                                     !.total_packets = @ + 1,
                                     !.i = @ + 1], o, <<>>)

\* what send does with the datagram recvfrom hands it
send_on_datagram(e, l, o, pkt) ==
    IF check_packet_source(e, pkt)
    THEN send_attempt(e, l, o, <<send_control_packet(e, RUDP_FLAG_FIN, 0, pkt.src)>>)
    ELSE LET packet_validity == check_packet_validity(e, pkt, RUDP_FLAG_ACK)
         IN  IF packet_validity = 0
             THEN send_attempt(e, [l EXCEPT !.num_of_tries = @ + 1], o, <<>>)
             ELSE IF packet_validity = -1
             THEN Outcome("returned", l, 0, FALSE,
                          <<send_control_packet(e, RUDP_FLAG_FIN + RUDP_FLAG_ACK, 0,
                                                m_destinationAddress4[e])>>, o)
             ELSE send_on_ack(e, l, o, pkt.seq_num)

\* send(buffer, buffer_size) is called and runs to its first poll
send(e, buffer) ==
    /\ CanCall(e)
    /\ op' = [op EXCEPT ![e] = "send"]
    /\ calls' = [calls EXCEPT ![e] = @ + 1]
    /\ msgs' = [msgs EXCEPT ![e] = Append(@, buffer)]
    /\ UNCHANGED strays
    /\ IF ~m_isConnected[e]
       THEN Finish(e, Outcome("thrown", NoLocals, 0, FALSE, <<>>, NoObs), net)
       ELSE Finish(e, send_iteration(e,
                        [NoLocals EXCEPT !.buffer = buffer,
                                         !.buffer_size = Len(buffer),
                                         !.expected_packets =
                                             expected_packets(Len(buffer), segment_size(e))],
                        NoObs, <<>>), net)

\* poll returns 0: the timeout passed with no datagram at the socket
send_timeout(e) ==
    /\ pc[e] = "send_poll"
    /\ Finish(e, send_attempt(e, [loc[e] EXCEPT !.num_of_tries = @ + 1], obs[e], <<>>), net)
    /\ UNCHANGED <<op, calls, msgs, strays>>

\* poll reports the socket readable and recvfrom takes the next datagram
send_readable(e) ==
    /\ pc[e] = "send_poll"
    /\ net[e] # <<>>
    /\ Finish(e, send_on_datagram(e, loc[e], obs[e], Head(net[e])),
              [net EXCEPT ![e] = Tail(@)])
    /\ UNCHANGED <<op, calls, msgs, strays>>

(***************************************************************************)
(* recv                                                                    *)
(***************************************************************************)
\* memcpy(buffer_ptr + offset, payload, n) on a user buffer of Len(buffer)
\* bytes: the bytes that land inside the buffer (the packet array was
\* zeroed before recvfrom, so bytes read after the payload are 0)
memcpy(buffer, offset, data, n) ==
    [j \in 1 .. Len(buffer) |->
        IF offset < j /\ j <= offset + n
        THEN (IF j - offset <= Len(data) THEN data[j - offset] ELSE 0)
        ELSE buffer[j]]

\* the memcpy calls that write past the end of the user buffer
overruns(buffer, offset, n) ==
    IF n > 0 /\ offset + n > Len(buffer) THEN {[offset |-> offset, n |-> n]} ELSE {}

\* offset of a segment in the user buffer
recv_offset(e, seq_num) == seq_num * (m_protocolMTU[e] - HEADER_SIZE)

\* the number of bytes recv copies for a segment of packet_size bytes at offset
recv_copy_size(buffer_size, offset, packet_size) ==
    IF offset + packet_size > buffer_size
    THEN (buffer_size - offset) % UINT16_RANGE
    ELSE packet_size

\* number of bytes recv copies for the first segment
recv_first_copy_size(buffer_size, total_bytes) ==
    IF total_bytes > buffer_size THEN buffer_size ELSE total_bytes

ack_packet(e, seq_num) ==
    send_control_packet(e, RUDP_FLAG_ACK, seq_num, m_destinationAddress4[e])

\* a dropped datagram in one of the retry loops of recv, which stays at stay
recv_retry(e, l, o, stay) ==
    IF l.num_of_tries + 1 = m_protocolMaximumRetries[e]
    THEN Outcome("thrown", [l EXCEPT !.num_of_tries = @ + 1], 0, TRUE, <<>>, o)
    ELSE Outcome(stay, [l EXCEPT !.num_of_tries = @ + 1], 0, TRUE, <<>>, o)

\* the peer closed: _check_packet_validity answered -1
recv_peer_closed(e, l, o) ==
    Outcome("returned", l, 0, FALSE,
            <<send_control_packet(e, RUDP_FLAG_FIN + RUDP_FLAG_ACK, 0,
                                  m_destinationAddress4[e])>>, o)

\* the first segment is accepted
recv_first_accept(e, l, o, pkt) ==
    LET total_bytes == Len(pkt.data)
        n == recv_first_copy_size(l.buffer_size, total_bytes)
        l2 == [l EXCEPT !.total_bytes = total_bytes,
                        !.buffer = memcpy(l.buffer, 0, pkt.data, n),
                        !.total_packets = @ + 1,
                        !.prev_seq_num = pkt.seq_num,
                        !.num_of_tries = 0]
        o2 == [o EXCEPT !.accepted = Append(@, [seq_num |-> pkt.seq_num,
                                                 flags |-> pkt.flags,
                                                 data |-> pkt.data]),
                        !.acked = @ \cup {pkt.seq_num},
                        !.overrun = @ \cup overruns(l.buffer, 0, n)]
        tx == <<ack_packet(e, pkt.seq_num)>>
    IN  IF total_bytes > l.buffer_size
        THEN Outcome("returned", l2, total_bytes, TRUE, tx, o2)
        ELSE IF HasFlag(pkt.flags, RUDP_FLAG_LAST)
        THEN Outcome("returned", l2, total_bytes, TRUE, tx, o2)
        ELSE Outcome("recv_poll", l2, 0, TRUE, tx, o2)

\* what recv does with a datagram while it waits for the first segment
recv_first_on_datagram(e, l, o, pkt) ==
    IF check_packet_source(e, pkt)
    THEN Outcome("recv_first", l, 0, TRUE,
                 <<send_control_packet(e, RUDP_FLAG_FIN, 0, pkt.src)>>, o)
    ELSE LET packet_validity == check_packet_validity(e, pkt, RUDP_FLAG_PSH)
         IN  IF packet_validity = 0 THEN recv_retry(e, l, o, "recv_first")
             ELSE IF packet_validity = -1 THEN recv_peer_closed(e, l, o)
             ELSE recv_first_accept(e, l, o, pkt)

\* a recv that answers a duplicate with no ACK and counts it as a try
recv_segment_counting(e, l, o, pkt) ==
    LET packet_seq_num == pkt.seq_num
        packet_size == pkt.length
        offset == recv_offset(e, packet_seq_num)
        n == recv_copy_size(l.buffer_size, offset, packet_size)
        l0 == [l EXCEPT !.num_of_tries = 0]
    IN  IF packet_seq_num = l.prev_seq_num
        THEN recv_retry(e, l, o, "recv_poll")
        ELSE IF packet_seq_num # l.prev_seq_num + 1
        THEN Outcome("recv_poll", l0, 0, TRUE, <<ack_packet(e, l.prev_seq_num)>>,
                     [o EXCEPT !.acked = @ \cup {l.prev_seq_num}])
        ELSE LET l2 == [l0 EXCEPT !.total_bytes = @ + packet_size,
                                  !.total_packets = @ + 1,
                                  !.prev_seq_num = packet_seq_num,
                                  !.buffer = memcpy(l.buffer, offset, pkt.data, n)]
                 o2 == [o EXCEPT !.accepted = Append(@, [seq_num |-> pkt.seq_num,
                                                          flags |-> pkt.flags,
                                                          data |-> pkt.data]),
                                 !.acked = @ \cup {packet_seq_num},
                                 !.overrun = @ \cup overruns(l.buffer, offset, n)]
                 tx == <<ack_packet(e, packet_seq_num)>>
             IN  IF HasFlag(pkt.flags, RUDP_FLAG_LAST)
                 THEN Outcome("returned", l2, l2.total_bytes, TRUE, tx, o2)
                 ELSE IF l2.total_bytes > l.buffer_size
                 THEN Outcome("returned", l2, l2.total_bytes, TRUE, tx, o2)
                 ELSE Outcome("recv_poll", l2, 0, TRUE, tx, o2)

\* a recv that takes every segment other than a duplicate as the next one
recv_segment_unordered(e, l, o, pkt) ==
    LET packet_seq_num == pkt.seq_num
        packet_size == pkt.length
        offset == recv_offset(e, packet_seq_num)
        n == recv_copy_size(l.buffer_size, offset, packet_size)
        l0 == [l EXCEPT !.num_of_tries = 0]
    IN  IF packet_seq_num = l.prev_seq_num
        THEN Outcome("recv_poll", l0, 0, TRUE, <<ack_packet(e, l.prev_seq_num)>>,
                     [o EXCEPT !.acked = @ \cup {l.prev_seq_num}])
        ELSE LET l2 == [l0 EXCEPT !.total_bytes = @ + packet_size,
                                  !.total_packets = @ + 1,
                                  !.prev_seq_num = packet_seq_num,
                                  !.buffer = memcpy(l.buffer, offset, pkt.data, n)]
                 o2 == [o EXCEPT !.accepted = Append(@, [seq_num |-> pkt.seq_num,
                                                          flags |-> pkt.flags,
                                                          data |-> pkt.data]),
                                 !.acked = @ \cup {packet_seq_num},
                                 !.overrun = @ \cup overruns(l.buffer, offset, n)]
                 tx == <<ack_packet(e, packet_seq_num)>>
             IN  IF HasFlag(pkt.flags, RUDP_FLAG_LAST)
                 THEN Outcome("returned", l2, l2.total_bytes, TRUE, tx, o2)
                 ELSE IF l2.total_bytes > l.buffer_size
                 THEN Outcome("returned", l2, l2.total_bytes, TRUE, tx, o2)
                 ELSE Outcome("recv_poll", l2, 0, TRUE, tx, o2)

\* a recv that answers an out-of-order segment with the ACK of that segment
recv_segment_acking_arrival(e, l, o, pkt) ==
    LET packet_seq_num == pkt.seq_num
        packet_size == pkt.length
        offset == recv_offset(e, packet_seq_num)
        n == recv_copy_size(l.buffer_size, offset, packet_size)
        l0 == [l EXCEPT !.num_of_tries = 0]
    IN  IF packet_seq_num = l.prev_seq_num
        THEN Outcome("recv_poll", l0, 0, TRUE, <<ack_packet(e, l.prev_seq_num)>>,
                     [o EXCEPT !.acked = @ \cup {l.prev_seq_num}])
        ELSE IF packet_seq_num # l.prev_seq_num + 1
        THEN Outcome("recv_poll", l0, 0, TRUE, <<ack_packet(e, packet_seq_num)>>,
                     [o EXCEPT !.acked = @ \cup {packet_seq_num}])
        ELSE LET l2 == [l0 EXCEPT !.total_bytes = @ + packet_size,
                                  !.total_packets = @ + 1,
                                  !.prev_seq_num = packet_seq_num,
                                  !.buffer = memcpy(l.buffer, offset, pkt.data, n)]
                 o2 == [o EXCEPT !.accepted = Append(@, [seq_num |-> pkt.seq_num,
                                                          flags |-> pkt.flags,
                                                          data |-> pkt.data]),
                                 !.acked = @ \cup {packet_seq_num},
                                 !.overrun = @ \cup overruns(l.buffer, offset, n)]
                 tx == <<ack_packet(e, packet_seq_num)>>
             IN  IF HasFlag(pkt.flags, RUDP_FLAG_LAST)
                 THEN Outcome("returned", l2, l2.total_bytes, TRUE, tx, o2)
                 ELSE IF l2.total_bytes > l.buffer_size
                 THEN Outcome("returned", l2, l2.total_bytes, TRUE, tx, o2)
                 ELSE Outcome("recv_poll", l2, 0, TRUE, tx, o2)

\* a valid segment after the first one
recv_segment(e, l, o, pkt) ==
    LET packet_seq_num == pkt.seq_num
        packet_size == pkt.length
        offset == recv_offset(e, packet_seq_num)
        n == recv_copy_size(l.buffer_size, offset, packet_size)
        l0 == [l EXCEPT !.num_of_tries = 0]
    IN  IF packet_seq_num = l.prev_seq_num
        THEN Outcome("recv_poll", l0, 0, TRUE, <<ack_packet(e, l.prev_seq_num)>>,
                     [o EXCEPT !.acked = @ \cup {l.prev_seq_num}])
        ELSE IF packet_seq_num # l.prev_seq_num + 1
        THEN Outcome("recv_poll", l0, 0, TRUE, <<ack_packet(e, l.prev_seq_num)>>,
                     [o EXCEPT !.acked = @ \cup {l.prev_seq_num}])
        ELSE LET l2 == [l0 EXCEPT !.total_bytes = @ + packet_size,
                                  !.total_packets = @ + 1,
                                  !.prev_seq_num = packet_seq_num,
                                  !.buffer = memcpy(l.buffer, offset, pkt.data, n)]
                 o2 == [o EXCEPT !.accepted = Append(@, [seq_num |-> pkt.seq_num,
                                                          flags |-> pkt.flags,
                                                          data |-> pkt.data]),
                                 !.acked = @ \cup {packet_seq_num},
                                 !.overrun = @ \cup overruns(l.buffer, offset, n)]
                 tx == <<ack_packet(e, packet_seq_num)>>
             IN  IF HasFlag(pkt.flags, RUDP_FLAG_LAST)
                 THEN Outcome("returned", l2, l2.total_bytes, TRUE, tx, o2)
                 ELSE IF l2.total_bytes > l.buffer_size
                 THEN Outcome("returned", l2, l2.total_bytes, TRUE, tx, o2)
                 ELSE Outcome("recv_poll", l2, 0, TRUE, tx, o2)

\* what recv does with a datagram while it waits for a later segment
recv_on_datagram(e, l, o, pkt) ==
    IF check_packet_source(e, pkt)
    THEN Outcome("recv_poll", l, 0, TRUE,
                 <<send_control_packet(e, RUDP_FLAG_FIN, 0, pkt.src)>>, o)
    ELSE LET packet_validity == check_packet_validity(e, pkt, RUDP_FLAG_PSH)
         IN  IF packet_validity = 0 THEN recv_retry(e, l, o, "recv_poll")
             ELSE IF packet_validity = -1 THEN recv_peer_closed(e, l, o)
             ELSE recv_segment(e, l, o, pkt)

\* A memcpy past the end of the user buffer is undefined behaviour: the call
\* goes on with the memory outside the buffer overwritten, or the process
\* dies.
after_memcpy(before, r) ==
    IF r.obs.overrun = before.overrun THEN {r} ELSE {r, [r EXCEPT !.pc = "crashed"]}

\* recv(buffer, buffer_size) is called and blocks in its first recvfrom
recv(e, buffer_size) ==
    /\ CanCall(e)
    /\ op' = [op EXCEPT ![e] = "recv"]
    /\ calls' = [calls EXCEPT ![e] = @ + 1]
    /\ UNCHANGED <<msgs, strays>>
    /\ IF ~m_isConnected[e]
       THEN Finish(e, Outcome("thrown", NoLocals, 0, FALSE, <<>>, NoObs), net)
       ELSE Finish(e, Outcome("recv_first",
                              [NoLocals EXCEPT !.buffer = [j \in 1 .. buffer_size |-> 0],
                                               !.buffer_size = buffer_size],
                              0, TRUE, <<>>, NoObs), net)

\* the blocking recvfrom of the first loop returns a datagram
recv_first_readable(e) ==
    /\ pc[e] = "recv_first"
    /\ net[e] # <<>>
    /\ \E r \in after_memcpy(obs[e], recv_first_on_datagram(e, loc[e], obs[e], Head(net[e]))) :
          Finish(e, r, [net EXCEPT ![e] = Tail(@)])
    /\ UNCHANGED <<op, calls, msgs, strays>>

\* poll returns 0 while recv waits for a later segment
recv_timeout(e) ==
    /\ pc[e] = "recv_poll"
    /\ Finish(e, recv_retry(e, loc[e], obs[e], "recv_poll"), net)
    /\ UNCHANGED <<op, calls, msgs, strays>>

\* poll reports the socket readable and recvfrom takes the next datagram
recv_readable(e) ==
    /\ pc[e] = "recv_poll"
    /\ net[e] # <<>>
    /\ \E r \in after_memcpy(obs[e], recv_on_datagram(e, loc[e], obs[e], Head(net[e]))) :
          Finish(e, r, [net EXCEPT ![e] = Tail(@)])
    /\ UNCHANGED <<op, calls, msgs, strays>>

(***************************************************************************)
(* connect, accept, disconnect                                             *)
(***************************************************************************)
\* m_isServer, fixed by the constructor
m_isServer(e) == e = "server"

\* m_destinationAddress4 after memset(&m_destinationAddress4, 0, ...)
ZeroAddress == "0.0.0.0:0"

\* the address of a third host, which runs no endpoint of the protocol
Stranger == "stranger"

\* the outcome of one step of connect, accept or disconnect: an Outcome with
\* the values of m_peersMTU and m_destinationAddress4
LifeOutcome(p, l, r, connected, tx, o, peersMTU, destination) ==
    [pc |-> p, loc |-> l, ret |-> r, connected |-> connected, tx |-> tx, obs |-> o,
     peersMTU |-> peersMTU, destination |-> destination]

FinishLife(e, r, nt) ==
    /\ pc' = [pc EXCEPT ![e] = r.pc]
    /\ loc' = [loc EXCEPT ![e] = r.loc]
    /\ ret' = [ret EXCEPT ![e] = r.ret]
    /\ obs' = [obs EXCEPT ![e] = r.obs]
    /\ m_isConnected' = [m_isConnected EXCEPT ![e] = r.connected]
    /\ m_peersMTU' = [m_peersMTU EXCEPT ![e] = r.peersMTU]
    /\ m_destinationAddress4' = [m_destinationAddress4 EXCEPT ![e] = r.destination]
    /\ net' = sendall(nt, r.tx)
    /\ outside' = [outside EXCEPT ![e] = @ \o to_outside(r.tx)]
    /\ wire' = on_wire(wire, r.tx)
    /\ raw' = raw
    /\ UNCHANGED <<m_protocolMTU, m_protocolMaximumRetries, m_protocolTimeout>>

\* a state error that forgets the peer
state_error_clearing(e) ==
    LifeOutcome("thrown", NoLocals, 0, m_isConnected[e], <<>>, NoObs, 0, ZeroAddress)

\* a call that throws before it touches anything
state_error(e) ==
    LifeOutcome("thrown", NoLocals, 0, m_isConnected[e], <<>>, NoObs,
                m_peersMTU[e], m_destinationAddress4[e])

\* the locals of a control exchange after one more SYN (connect) or FIN
\* (disconnect) went to the peer: total_actual_packets counts the passes of
\* the loop's own sendto, as it does in send
transmitted(l) == [l EXCEPT !.total_actual_packets = @ + 1]

\* a loop of connect that makes one pass more than max_retries
connect_attempt_inclusive(e, l, tx, destination) ==
    IF l.num_of_tries <= m_protocolMaximumRetries[e]
    THEN LifeOutcome("connect_poll", transmitted(l), 0, FALSE,
                     Append(tx, send_control_packet(e, RUDP_FLAG_SYN, 0, destination)),
                     NoObs, m_peersMTU[e], destination)
    ELSE LifeOutcome("returned", l, 0, FALSE, tx, NoObs, m_peersMTU[e], destination)

\* the head of the loop of connect, to the poll: the SYN goes to destination
connect_attempt(e, l, tx, destination) ==
    IF l.num_of_tries < m_protocolMaximumRetries[e]
    THEN LifeOutcome("connect_poll", transmitted(l), 0, FALSE,
                     Append(tx, send_control_packet(e, RUDP_FLAG_SYN, 0, destination)),
                     NoObs, m_peersMTU[e], destination)
    ELSE LifeOutcome("returned", l, 0, FALSE, tx, NoObs, m_peersMTU[e], destination)

\* a connect that takes the peer's rejection for one more invalid datagram
connect_on_datagram_retrying(e, l, pkt) ==
    IF check_packet_source(e, pkt)
    THEN connect_attempt(e, l, <<send_control_packet(e, RUDP_FLAG_FIN, 0, pkt.src)>>,
                         m_destinationAddress4[e])
    ELSE LET packet_validity ==
                 check_packet_validity(e, pkt, RUDP_FLAG_SYN + RUDP_FLAG_ACK)
         IN  IF packet_validity = 0 \/ packet_validity = -1
             THEN connect_attempt(e, [l EXCEPT !.num_of_tries = @ + 1], <<>>,
                                  m_destinationAddress4[e])
             ELSE LifeOutcome("returned", l, 1, TRUE, <<>>, NoObs, ntohs(pkt.data, 1),
                              m_destinationAddress4[e])

\* what connect does with the datagram recvfrom hands it
connect_on_datagram(e, l, pkt) ==
    IF check_packet_source(e, pkt)
    THEN connect_attempt(e, l, <<send_control_packet(e, RUDP_FLAG_FIN, 0, pkt.src)>>,
                         m_destinationAddress4[e])
    ELSE LET packet_validity ==
                 check_packet_validity(e, pkt, RUDP_FLAG_SYN + RUDP_FLAG_ACK)
         IN  IF packet_validity = 0
             THEN connect_attempt(e, [l EXCEPT !.num_of_tries = @ + 1], <<>>,
                                  m_destinationAddress4[e])
             ELSE IF packet_validity = -1
             THEN LifeOutcome("thrown", l, 0, FALSE, <<>>, NoObs, m_peersMTU[e],
                              m_destinationAddress4[e])
             ELSE LifeOutcome("returned", l, 1, TRUE, <<>>, NoObs, ntohs(pkt.data, 1),
                              m_destinationAddress4[e])

\* connect(dest_ip, dest_port) is called and runs to its first poll
connect(e, destination) ==
    /\ CanCall(e)
    /\ op' = [op EXCEPT ![e] = "connect"]
    /\ calls' = [calls EXCEPT ![e] = @ + 1]
    /\ UNCHANGED <<msgs, strays>>
    /\ IF m_isServer(e) \/ m_isConnected[e]
       THEN FinishLife(e, state_error(e), net)
       ELSE FinishLife(e, connect_attempt(e, NoLocals, <<>>, destination), net)

\* poll returns 0 in connect
connect_timeout(e) ==
    /\ pc[e] = "connect_poll"
    /\ FinishLife(e, connect_attempt(e, [loc[e] EXCEPT !.num_of_tries = @ + 1], <<>>,
                                     m_destinationAddress4[e]), net)
    /\ UNCHANGED <<op, calls, msgs, strays>>

\* poll reports the socket readable in connect
connect_readable(e) ==
    /\ pc[e] = "connect_poll"
    /\ net[e] # <<>>
    /\ FinishLife(e, connect_on_datagram(e, loc[e], Head(net[e])),
                  [net EXCEPT ![e] = Tail(@)])
    /\ UNCHANGED <<op, calls, msgs, strays>>

\* what accept does with the datagram recvfrom hands it
accept_on_datagram(e, l, pkt) ==
    LET packet_validity == check_packet_validity(e, pkt, RUDP_FLAG_SYN)
    IN  IF packet_validity = 0
        THEN LifeOutcome("accept_wait", l, 0, FALSE, <<>>, NoObs, m_peersMTU[e],
                         m_destinationAddress4[e])
        ELSE IF packet_validity = -1
        THEN LifeOutcome("returned", l, 0, FALSE, <<>>, NoObs, m_peersMTU[e],
                         m_destinationAddress4[e])
        ELSE LifeOutcome("returned", l, 1, TRUE,
                         <<send_control_packet(e, RUDP_FLAG_SYN + RUDP_FLAG_ACK, 0, pkt.src)>>,
                         NoObs, ntohs(pkt.data, 1), pkt.src)

\* accept() is called and blocks in recvfrom
accept(e) ==
    /\ CanCall(e)
    /\ op' = [op EXCEPT ![e] = "accept"]
    /\ calls' = [calls EXCEPT ![e] = @ + 1]
    /\ UNCHANGED <<msgs, strays>>
    /\ IF ~m_isServer(e) \/ m_isConnected[e]
       THEN FinishLife(e, state_error(e), net)
       ELSE FinishLife(e, LifeOutcome("accept_wait", NoLocals, 0, FALSE, <<>>, NoObs,
                                      m_peersMTU[e], m_destinationAddress4[e]), net)

\* the blocking recvfrom of accept returns a datagram
accept_readable(e) ==
    /\ pc[e] = "accept_wait"
    /\ net[e] # <<>>
    /\ FinishLife(e, accept_on_datagram(e, loc[e], Head(net[e])),
                  [net EXCEPT ![e] = Tail(@)])
    /\ UNCHANGED <<op, calls, msgs, strays>>

\* disconnect that reports the failure when its retries run out, and keeps
\* the connection
disconnect_attempt_failing(e, l, tx) ==
    IF l.num_of_tries < m_protocolMaximumRetries[e]
    THEN LifeOutcome("disconnect_poll", transmitted(l), 0, TRUE,
                     Append(tx, send_control_packet(e, RUDP_FLAG_FIN, 0,
                                                    m_destinationAddress4[e])),
                     NoObs, m_peersMTU[e], m_destinationAddress4[e])
    ELSE LifeOutcome("returned", l, 0, TRUE, tx, NoObs, m_peersMTU[e],
                     m_destinationAddress4[e])

\* the head of the loop of disconnect, to the poll; past the loop the
\* connection is taken for closed
disconnect_attempt(e, l, tx) ==
    IF l.num_of_tries < m_protocolMaximumRetries[e]
    THEN LifeOutcome("disconnect_poll", transmitted(l), 0, TRUE,
                     Append(tx, send_control_packet(e, RUDP_FLAG_FIN, 0,
                                                    m_destinationAddress4[e])),
                     NoObs, m_peersMTU[e], m_destinationAddress4[e])
    ELSE LifeOutcome("returned", l, 1, FALSE, tx, NoObs, m_peersMTU[e], ZeroAddress)

\* a disconnect that takes every datagram of the peer as the end of the
\* connection
disconnect_on_datagram_hasty(e, l, pkt) ==
    IF check_packet_source(e, pkt)
    THEN disconnect_attempt(e, l, <<send_control_packet(e, RUDP_FLAG_FIN, 0, pkt.src)>>)
    ELSE LifeOutcome("returned", l, 1, FALSE, <<>>, NoObs, m_peersMTU[e], ZeroAddress)

\* what disconnect does with the datagram recvfrom hands it
disconnect_on_datagram(e, l, pkt) ==
    IF check_packet_source(e, pkt)
    THEN disconnect_attempt(e, l, <<send_control_packet(e, RUDP_FLAG_FIN, 0, pkt.src)>>)
    ELSE IF check_packet_validity(e, pkt, RUDP_FLAG_FIN + RUDP_FLAG_ACK) = 0
    THEN disconnect_attempt(e, [l EXCEPT !.num_of_tries = @ + 1], <<>>)
    ELSE LifeOutcome("returned", l, 1, FALSE, <<>>, NoObs, m_peersMTU[e], ZeroAddress)

\* disconnect without the test of m_isConnected
disconnect_untested(e) ==
    /\ CanCall(e)
    /\ op' = [op EXCEPT ![e] = "disconnect"]
    /\ calls' = [calls EXCEPT ![e] = @ + 1]
    /\ UNCHANGED <<msgs, strays>>
    /\ FinishLife(e, disconnect_attempt(e, NoLocals, <<>>), net)

\* disconnect() is called and runs to its first poll
disconnect(e) ==
    /\ CanCall(e)
    /\ op' = [op EXCEPT ![e] = "disconnect"]
    /\ calls' = [calls EXCEPT ![e] = @ + 1]
    /\ UNCHANGED <<msgs, strays>>
    /\ IF ~m_isConnected[e]
       THEN FinishLife(e, state_error(e), net)
       ELSE FinishLife(e, disconnect_attempt(e, NoLocals, <<>>), net)

\* poll returns 0 in disconnect
disconnect_timeout(e) ==
    /\ pc[e] = "disconnect_poll"
    /\ FinishLife(e, disconnect_attempt(e, [loc[e] EXCEPT !.num_of_tries = @ + 1], <<>>), net)
    /\ UNCHANGED <<op, calls, msgs, strays>>

\* poll reports the socket readable in disconnect
disconnect_readable(e) ==
    /\ pc[e] = "disconnect_poll"
    /\ net[e] # <<>>
    /\ FinishLife(e, disconnect_on_datagram(e, loc[e], Head(net[e])),
                  [net EXCEPT ![e] = Tail(@)])
    /\ UNCHANGED <<op, calls, msgs, strays>>

(***************************************************************************)
(* The constructor and the setters                                         *)
(***************************************************************************)
\* RUDP_Socket_p(isServer, listen_port, MTU, timeout, max_retries): the
\* constructor throws on an argument below its minimum, and then there is no
\* object
constructor(MTU, timeout, max_retries) ==
    IF MTU < RUDP_MINIMAL_MTU THEN "no_object"
    ELSE IF timeout < RUDP_MINIMAL_TIMEOUT THEN "no_object"
    ELSE IF max_retries = 0 THEN "no_object"
    ELSE "idle"

\* the effect of a setter that returns or throws at once: the call has no
\* locals and sends nothing
setter(e, name, thrown) ==
    /\ CanCall(e)
    /\ op' = [op EXCEPT ![e] = name]
    /\ calls' = [calls EXCEPT ![e] = @ + 1]
    /\ pc' = [pc EXCEPT ![e] = IF thrown THEN "thrown" ELSE "returned"]
    /\ loc' = [loc EXCEPT ![e] = NoLocals]
    /\ ret' = [ret EXCEPT ![e] = 0]
    /\ obs' = [obs EXCEPT ![e] = NoObs]
    /\ UNCHANGED <<m_isConnected, m_peersMTU, m_destinationAddress4, net, msgs,
                   outside, strays, wire, raw>>

setMTU(e, MTU) ==
    LET thrown == m_isConnected[e] \/ MTU < RUDP_MINIMAL_MTU
    IN  /\ setter(e, "setMTU", thrown)
        /\ m_protocolMTU' = IF thrown THEN m_protocolMTU
                            ELSE [m_protocolMTU EXCEPT ![e] = MTU]
        /\ UNCHANGED <<m_protocolTimeout, m_protocolMaximumRetries>>

setTimeout(e, timeout) ==
    LET thrown == timeout < RUDP_MINIMAL_TIMEOUT
    IN  /\ setter(e, "setTimeout", thrown)
        /\ m_protocolTimeout' = IF thrown THEN m_protocolTimeout
                                ELSE [m_protocolTimeout EXCEPT ![e] = timeout]
        /\ UNCHANGED <<m_protocolMTU, m_protocolMaximumRetries>>

\* setMaxRetries without the test of its argument
setMaxRetries_unchecked(e, max_retries) ==
    /\ setter(e, "setMaxRetries", FALSE)
    /\ m_protocolMaximumRetries' = [m_protocolMaximumRetries EXCEPT ![e] = max_retries]
    /\ UNCHANGED <<m_protocolMTU, m_protocolTimeout>>

setMaxRetries(e, max_retries) ==
    LET thrown == max_retries < 1
    IN  /\ setter(e, "setMaxRetries", thrown)
        /\ m_protocolMaximumRetries' =
              IF thrown THEN m_protocolMaximumRetries
              ELSE [m_protocolMaximumRetries EXCEPT ![e] = max_retries]
        /\ UNCHANGED <<m_protocolMTU, m_protocolTimeout>>

(***************************************************************************)
(* The network                                                             *)
(***************************************************************************)
\* the datagram at the head of a queue is lost
lose(e) ==
    /\ net[e] # <<>>
    /\ net' = [net EXCEPT ![e] = Tail(@)]
    /\ UNCHANGED <<m_isConnected, cfg, pc, op, loc, ret, obs, calls, msgs, outside, strays,
                   wire, raw>>

\* the datagram endpoint e, blocked in poll or recvfrom, is about to read was
\* damaged in transit: what arrives has a length field that no longer
\* matches the bytes received
damage(e) ==
    /\ pc[e] \in {"connect_poll", "accept_wait", "disconnect_poll", "send_poll",
                  "recv_first", "recv_poll"}
    /\ net[e] # <<>>
    /\ Head(net[e]).length = Len(Head(net[e]).data)
    /\ net' = [net EXCEPT ![e] = <<[Head(@) EXCEPT !.length = @ + 1]>> \o Tail(@)]
    /\ UNCHANGED <<m_isConnected, cfg, pc, op, loc, ret, obs, calls, msgs, outside, strays,
                   wire, raw>>

\* the well-formed datagrams the third host sends: a FIN, a SYN with the
\* payload of a socket of the smallest MTU, an empty PSH|LAST segment and an
\* ACK
StrayPackets ==
    {[src |-> Stranger, flags |-> RUDP_FLAG_FIN, seq_num |-> 0, length |-> 0, data |-> <<>>],
     [src |-> Stranger, flags |-> RUDP_FLAG_SYN, seq_num |-> 0, length |-> SYN_PACKET_SIZE,
      data |-> htons(RUDP_MINIMAL_MTU) \o htons(RUDP_MINIMAL_TIMEOUT) \o htons(1) \o htons(0)],
     [src |-> Stranger, flags |-> RUDP_FLAG_PSH + RUDP_FLAG_LAST, seq_num |-> 0,
      length |-> 0, data |-> <<>>],
     [src |-> Stranger, flags |-> RUDP_FLAG_ACK, seq_num |-> 0, length |-> 0, data |-> <<>>]}

\* endpoint e, blocked in poll or recvfrom, is handed the datagram pkt
takes(e, pkt) ==
    \/ pc[e] = "connect_poll" /\ FinishLife(e, connect_on_datagram(e, loc[e], pkt), net)
    \/ pc[e] = "accept_wait" /\ FinishLife(e, accept_on_datagram(e, loc[e], pkt), net)
    \/ pc[e] = "disconnect_poll"
          /\ FinishLife(e, disconnect_on_datagram(e, loc[e], pkt), net)
    \/ pc[e] = "send_poll" /\ Finish(e, send_on_datagram(e, loc[e], obs[e], pkt), net)
    \/ pc[e] = "recv_first"
          /\ \E r \in after_memcpy(obs[e], recv_first_on_datagram(e, loc[e], obs[e], pkt)) :
                Finish(e, r, net)
    \/ pc[e] = "recv_poll"
          /\ \E r \in after_memcpy(obs[e], recv_on_datagram(e, loc[e], obs[e], pkt)) :
                Finish(e, r, net)

\* the third host sends a datagram to the socket of e; it arrives while e is
\* blocked with nothing else to read, and e reads it at once
stray(e, pkt) ==
    /\ strays < MaxStray
    /\ net[e] = <<>>
    /\ strays' = strays + 1
    /\ takes(e, pkt)
    /\ UNCHANGED <<op, calls, msgs>>

(***************************************************************************)
(* The bytes of a datagram and the checksum                                *)
(***************************************************************************)
\* the byte order of the machine the library is built for
Hosts == {"little", "big"}

\* no datagram is under observation
NoDatagram(host) ==
    [stage |-> "none", host |-> host, flags |-> 0, bytes |-> <<>>, flipped |-> FALSE,
     expected |-> 0, verdict |-> 0]

\* neither the log of the wire nor the bytes of a datagram are kept
Unobserved == wire = Untraced /\ raw = NoDatagram("little")

\* a 32-bit field in network byte order, and back (in 32 bits, as UINT32_MAX)
htonl(v) == <<v \div 16777216, (v \div 65536) % 256, (v \div 256) % 256, v % 256>>

ntohl(data, at) ==
    (IF data[at] >= 128 THEN data[at] - 256 ELSE data[at]) * 16777216
        + data[at + 1] * 65536 + data[at + 2] * 256 + data[at + 3]

\* data_ptr[i], the i-th (from 0) uint16_t of the bytes as the host reads it
word(data, i, host) ==
    IF host = "little" THEN data[2 * i + 1] + 256 * data[2 * i + 2]
    ELSE 256 * data[2 * i + 1] + data[2 * i + 2]

\* the sum of the first n words
RECURSIVE sum_words(_, _, _)
sum_words(data, n, host) ==
    IF n = 0 THEN 0 ELSE sum_words(data, n - 1, host) + word(data, n - 1, host)

\* while (checksum >> 16) checksum = (checksum & 0xFFFF) + (checksum >> 16)
RECURSIVE fold(_)
fold(checksum) ==
    IF checksum \div UINT16_RANGE > 0
    THEN fold((checksum % UINT16_RANGE) + (checksum \div UINT16_RANGE))
    ELSE checksum

\* a checksum that leaves the last byte of an odd length out
calculate_checksum_even(data, host) ==
    (UINT16_RANGE - 1) - fold(sum_words(data, Len(data) \div 2, host))

\* _calculate_checksum: the complement, in 16 bits, of the folded sum of the
\* words and of the last byte of an odd length
calculate_checksum(data, host) ==
    (UINT16_RANGE - 1)
        - fold(sum_words(data, Len(data) \div 2, host)
                 + (IF Len(data) % 2 = 1 THEN data[Len(data)] ELSE 0))

\* the bytes sendto is given for a packet: the header with seq_num and
\* length in network byte order, the payload, and in the checksum field
\* htons of the checksum of all these bytes, computed while the field is 0
encode(pkt, host) ==
    LET zeroed == htonl(pkt.seq_num) \o htons(pkt.length) \o <<0, 0>>
                      \o <<pkt.flags, 0, 0, 0>> \o pkt.data
        checksum == htons(calculate_checksum(zeroed, host))
    IN  [zeroed EXCEPT ![7] = checksum[1], ![8] = checksum[2]]

\* the header and the payload recvfrom delivered
decode(bytes, src) ==
    [src |-> src, flags |-> bytes[9], seq_num |-> ntohl(bytes, 1),
     length |-> ntohs(bytes, 5), data |-> SubSeq(bytes, 13, Len(bytes))]

\* a validator that reads the stored checksum without ntohs
received_checksum_unconverted(bytes) == bytes[7] + 256 * bytes[8]

\* checksum = ntohs(header->checksum)
received_checksum(bytes) == ntohs(bytes, 7)

\* _check_packet_validity on the bytes of a datagram: 1 accept, 0 drop, -1
\* peer closed
check_raw_validity(e, bytes, expected_flags, host) ==
    LET packet_size == Len(bytes)
        checksum == received_checksum(bytes)
        length == ntohs(bytes, 5)
        recomputed == calculate_checksum([bytes EXCEPT ![7] = 0, ![8] = 0], host)
    IN  IF packet_size < HEADER_SIZE THEN 0
        ELSE IF length # packet_size - HEADER_SIZE THEN 0
        ELSE IF checksum # recomputed THEN 0
        ELSE check_packet_validity(e, decode(bytes, Peer(e)), expected_flags)

\* byte j with bit b (0 the lowest) flipped
flip(bytes, j, b) ==
    [bytes EXCEPT ![j] = IF (@ \div (2 ^ b)) % 2 = 1 THEN @ - 2 ^ b ELSE @ + 2 ^ b]

\* what the actions on the bytes of a datagram leave alone
session == <<m_isConnected, cfg, net, pc, op, loc, ret, obs, calls, msgs, outside,
             strays, wire>>

\* endpoint e builds a packet and passes its bytes to sendto
emit(e, pkt) ==
    /\ raw.stage = "none"
    /\ raw' = [raw EXCEPT !.stage = "sent", !.flags = pkt.flags,
                          !.bytes = encode(pkt, raw.host)]
    /\ UNCHANGED session

\* _send_control_packet with these flags and this sequence number
emit_control(e, flags, seq_num) ==
    emit(e, send_control_packet(e, flags, seq_num, m_destinationAddress4[e]).pkt)

\* send builds segment i of a buffer, the segments before it acknowledged
emit_data(e, buffer, i) ==
    /\ i < expected_packets(Len(buffer), segment_size(e))
    /\ emit(e, data_packet(e, [NoLocals EXCEPT
                                  !.buffer = buffer,
                                  !.buffer_size = Len(buffer),
                                  !.expected_packets =
                                      expected_packets(Len(buffer), segment_size(e)),
                                  !.i = i,
                                  !.total_packets = i,
                                  !.total_bytes = i * segment_size(e)]))

\* one bit outside the checksum field changes on the way
corrupt(j, b) ==
    /\ raw.stage = "sent"
    /\ ~raw.flipped
    /\ j \in 1 .. Len(raw.bytes)
    /\ j \notin {7, 8}
    /\ raw' = [raw EXCEPT !.bytes = flip(@, j, b), !.flipped = TRUE]
    /\ UNCHANGED session

\* endpoint e validates the datagram against a mask
validate(e, expected_flags) ==
    /\ raw.stage = "sent"
    /\ raw' = [raw EXCEPT !.stage = "validated", !.expected = expected_flags,
                          !.verdict = check_raw_validity(e, raw.bytes, expected_flags,
                                                         raw.host)]
    /\ UNCHANGED session

(***************************************************************************)
(* Specifications                                                          *)
(***************************************************************************)
\* the state a handshake between two endpoints leaves: connect and accept set
\* m_isConnected and m_peersMTU to the MTU in the peer's SYN payload
Connected ==
    /\ m_isConnected = [e \in Endpoints |-> TRUE]
    /\ m_protocolMTU \in [Endpoints -> MTUs]
    /\ m_peersMTU = [e \in Endpoints |-> m_protocolMTU[Peer(e)]]
    /\ m_protocolMaximumRetries \in [Endpoints -> RetrySet]
    /\ m_destinationAddress4 = [e \in Endpoints |-> Peer(e)]
    /\ net = [e \in Endpoints |-> <<>>]
    /\ pc = [e \in Endpoints |-> "idle"]
    /\ op = [e \in Endpoints |-> "none"]
    /\ loc = [e \in Endpoints |-> NoLocals]
    /\ ret = [e \in Endpoints |-> 0]
    /\ obs = [e \in Endpoints |-> NoObs]
    /\ calls = [e \in Endpoints |-> 0]
    /\ msgs = [e \in Endpoints |-> <<>>]
    /\ m_protocolTimeout = [e \in Endpoints |-> RUDP_MINIMAL_TIMEOUT]
    /\ outside = [e \in Endpoints |-> <<>>]
    /\ strays = 0

Init == Connected /\ Unobserved

\* One message over a link that loses and delays datagrams: the client sends
\* it, the server receives it.
Next ==
    \/ \E len \in Lens : calls["client"] = 0 /\ send("client", Message(1, len))
    \/ \E cap \in Caps : calls["server"] = 0 /\ recv("server", cap)
    \/ send_timeout("client")
    \/ send_readable("client")
    \/ recv_first_readable("server")
    \/ recv_timeout("server")
    \/ recv_readable("server")
    \/ \E e \in Endpoints : lose(e)

Spec == Init /\ [][Next]_vars

\* One message over a good link: no datagram is lost and no timeout fires
\* before the awaited datagram arrives.
NextGood ==
    \/ \E len \in Lens : calls["client"] = 0 /\ send("client", Message(1, len))
    \/ \E cap \in Caps : calls["server"] = 0 /\ recv("server", cap)
    \/ send_readable("client")
    \/ recv_first_readable("server")
    \/ recv_readable("server")

\* a datagram at a socket is received by the call that waits for it
FairGood ==
    /\ WF_vars(send_readable("client"))
    /\ WF_vars(recv_first_readable("server"))
    /\ WF_vars(recv_readable("server"))

SpecGood == Init /\ [][NextGood]_vars /\ FairGood

\* Up to MaxCalls messages, one after the other, between endpoints with the
\* same MTU, over a link that loses and delays datagrams: the client's k-th
\* send carries Message(k, len), and every recv of the server is given a
\* buffer that holds the longest message.
InitCalls ==
    Connected /\ m_protocolMTU["client"] = m_protocolMTU["server"] /\ Unobserved

NextCalls ==
    \/ \E len \in Lens :
          calls["client"] < MaxCalls /\ send("client", Message(calls["client"] + 1, len))
    \/ calls["server"] < MaxCalls /\ recv("server", MaxLen)
    \/ send_timeout("client")
    \/ send_readable("client")
    \/ recv_first_readable("server")
    \/ recv_timeout("server")
    \/ recv_readable("server")
    \/ \E e \in Endpoints : lose(e)

SpecCalls == InitCalls /\ [][NextCalls]_vars

\* a stream of messages of two full segments, each followed by the empty
\* LAST segment, between two endpoints of the smallest MTU
InitStream ==
    /\ Connected
    /\ m_protocolMTU = [e \in Endpoints |-> RUDP_MINIMAL_MTU]
    /\ m_protocolMaximumRetries = [e \in Endpoints |-> MaxRetries]
    /\ Unobserved

NextStream ==
    \/ /\ calls["client"] < MaxCalls
       /\ send("client", Message(calls["client"] + 1, MinSeg + MinSeg))
    \/ calls["server"] < MaxCalls /\ recv("server", MaxLen)
    \/ send_timeout("client")
    \/ send_readable("client")
    \/ recv_first_readable("server")
    \/ recv_timeout("server")
    \/ recv_readable("server")
    \/ \E e \in Endpoints : lose(e)

SpecStream == InitStream /\ [][NextStream]_vars

\* Two sockets as their constructors leave them.  m_destinationAddress4 has
\* no initializer; no code reads it before connect or accept has written it,
\* and it stands as the zero address here.
Constructed(MTU, timeout, max_retries) ==
    /\ m_isConnected = [e \in Endpoints |-> FALSE]
    /\ m_protocolMTU = MTU
    /\ m_protocolTimeout = timeout
    /\ m_protocolMaximumRetries = max_retries
    /\ m_peersMTU = [e \in Endpoints |-> 0]
    /\ m_destinationAddress4 = [e \in Endpoints |-> ZeroAddress]
    /\ net = [e \in Endpoints |-> <<>>]
    /\ pc = [e \in Endpoints |-> constructor(MTU[e], timeout[e], max_retries[e])]
    /\ op = [e \in Endpoints |-> "none"]
    /\ loc = [e \in Endpoints |-> NoLocals]
    /\ ret = [e \in Endpoints |-> 0]
    /\ obs = [e \in Endpoints |-> NoObs]
    /\ calls = [e \in Endpoints |-> 0]
    /\ msgs = [e \in Endpoints |-> <<>>]
    /\ outside = [e \in Endpoints |-> <<>>]
    /\ strays = 0

\* The life of a connection: a client socket (MTU 21) and a server socket
\* (MTU 20), making up to MaxLifeCalls calls of connect, accept, send, recv
\* and disconnect in any order, over a link that loses and delays
\* datagrams, with a third host sending stray datagrams to either socket
\* (a stray datagram reaches an endpoint blocked in a call with nothing else
\* to read).
\* The client sends a message of one full segment, which goes out as two
\* segments, the second empty.
InitLife ==
    /\ Unobserved
    /\ Constructed([e \in Endpoints |-> IF e = "client" THEN RUDP_MINIMAL_MTU + 1
                                       ELSE RUDP_MINIMAL_MTU],
                   [e \in Endpoints |-> RUDP_MINIMAL_TIMEOUT],
                   [e \in Endpoints |-> MaxRetries])

\* the calls made so far
LifeCalls == calls["client"] + calls["server"]

NextLife ==
    \/ \E e \in Endpoints : LifeCalls < MaxLifeCalls /\ connect(e, Peer(e))
    \/ \E e \in Endpoints : LifeCalls < MaxLifeCalls /\ accept(e)
    \/ \E e \in Endpoints : LifeCalls < MaxLifeCalls /\ disconnect(e)
    \/ LifeCalls < MaxLifeCalls /\ send("client", Message(1, MinSeg))
    \/ LifeCalls < MaxLifeCalls /\ recv("server", MinSeg)
    \/ connect_timeout("client")
    \/ connect_readable("client")
    \/ accept_readable("server")
    \/ \E e \in Endpoints : disconnect_timeout(e)
    \/ \E e \in Endpoints : disconnect_readable(e)
    \/ send_timeout("client")
    \/ send_readable("client")
    \/ recv_first_readable("server")
    \/ recv_timeout("server")
    \/ recv_readable("server")
    \/ \E e \in Endpoints : lose(e)
    \/ \E e \in Endpoints, pkt \in StrayPackets : stray(e, pkt)

SpecLife == InitLife /\ [][NextLife]_vars

\* the values the constructor and the setters are called with: the smallest
\* legal one, the one below it and one above it
SetterMTUs == {RUDP_MINIMAL_MTU - 1, RUDP_MINIMAL_MTU, RUDP_MINIMAL_MTU + 1}

SetterTimeouts == {RUDP_MINIMAL_TIMEOUT - 1, RUDP_MINIMAL_TIMEOUT, RUDP_MINIMAL_TIMEOUT + 1}

SetterRetries == {0, 1, MaxRetries}

\* Configuration: a client socket constructed with any of these arguments and
\* a server socket with the smallest legal ones, making up to MaxConfigCalls
\* calls of the setters, connect, accept and disconnect in any order, over a
\* link that loses and delays datagrams.
InitConfig ==
    /\ Unobserved
    /\ \E MTU \in SetterMTUs, timeout \in SetterTimeouts, max_retries \in SetterRetries :
          Constructed([e \in Endpoints |-> IF e = "client" THEN MTU ELSE RUDP_MINIMAL_MTU],
                      [e \in Endpoints |-> IF e = "client" THEN timeout
                                           ELSE RUDP_MINIMAL_TIMEOUT],
                      [e \in Endpoints |-> IF e = "client" THEN max_retries ELSE 1])

NextConfig ==
    \/ \E e \in Endpoints, MTU \in SetterMTUs : LifeCalls < MaxConfigCalls /\ setMTU(e, MTU)
    \/ \E e \in Endpoints, timeout \in SetterTimeouts :
          LifeCalls < MaxConfigCalls /\ setTimeout(e, timeout)
    \/ \E e \in Endpoints, max_retries \in SetterRetries :
          LifeCalls < MaxConfigCalls /\ setMaxRetries(e, max_retries)
    \/ \E e \in Endpoints : LifeCalls < MaxConfigCalls /\ connect(e, Peer(e))
    \/ \E e \in Endpoints : LifeCalls < MaxConfigCalls /\ accept(e)
    \/ \E e \in Endpoints : LifeCalls < MaxConfigCalls /\ disconnect(e)
    \/ connect_timeout("client")
    \/ connect_readable("client")
    \/ accept_readable("server")
    \/ \E e \in Endpoints : disconnect_timeout(e)
    \/ \E e \in Endpoints : disconnect_readable(e)
    \/ \E e \in Endpoints : lose(e)

SpecConfig == InitConfig /\ [][NextConfig]_vars

\* A session: two endpoints a handshake has connected (MTU 20 on both
\* sides), making up to MaxSessionCalls calls of send, recv, disconnect,
\* connect and accept in any order and on either side, also at the same
\* time, over a link that loses and delays datagrams.  Every send carries a
\* message of one full segment, which goes out as two segments, the second
\* empty.
InitSession ==
    /\ Connected
    /\ m_protocolMTU = [e \in Endpoints |-> RUDP_MINIMAL_MTU]
    /\ m_protocolMaximumRetries = [e \in Endpoints |-> MaxRetries]
    /\ Unobserved

NextSession ==
    \/ \E e \in Endpoints : LifeCalls < MaxSessionCalls /\ send(e, Message(1, MinSeg))
    \/ \E e \in Endpoints : LifeCalls < MaxSessionCalls /\ recv(e, MinSeg)
    \/ \E e \in Endpoints : LifeCalls < MaxSessionCalls /\ disconnect(e)
    \/ \E e \in Endpoints : LifeCalls < MaxSessionCalls /\ connect(e, Peer(e))
    \/ \E e \in Endpoints : LifeCalls < MaxSessionCalls /\ accept(e)
    \/ \E e \in Endpoints : send_timeout(e)
    \/ \E e \in Endpoints : send_readable(e)
    \/ \E e \in Endpoints : recv_first_readable(e)
    \/ \E e \in Endpoints : recv_timeout(e)
    \/ \E e \in Endpoints : recv_readable(e)
    \/ \E e \in Endpoints : disconnect_timeout(e)
    \/ \E e \in Endpoints : disconnect_readable(e)
    \/ connect_timeout("client")
    \/ connect_readable("client")
    \/ accept_readable("server")
    \/ \E e \in Endpoints : lose(e)

SpecSession == InitSession /\ [][NextSession]_vars

\* the same session over a network that damages datagrams instead of losing
\* them
NextNoise ==
    \/ \E e \in Endpoints : LifeCalls < MaxSessionCalls /\ send(e, Message(1, MinSeg))
    \/ \E e \in Endpoints : LifeCalls < MaxSessionCalls /\ recv(e, MinSeg)
    \/ \E e \in Endpoints : LifeCalls < MaxSessionCalls /\ disconnect(e)
    \/ \E e \in Endpoints : LifeCalls < MaxSessionCalls /\ connect(e, Peer(e))
    \/ \E e \in Endpoints : LifeCalls < MaxSessionCalls /\ accept(e)
    \/ \E e \in Endpoints : send_timeout(e)
    \/ \E e \in Endpoints : send_readable(e)
    \/ \E e \in Endpoints : recv_first_readable(e)
    \/ \E e \in Endpoints : recv_timeout(e)
    \/ \E e \in Endpoints : recv_readable(e)
    \/ \E e \in Endpoints : disconnect_timeout(e)
    \/ \E e \in Endpoints : disconnect_readable(e)
    \/ connect_timeout("client")
    \/ connect_readable("client")
    \/ accept_readable("server")
    \/ \E e \in Endpoints : damage(e)

SpecNoise == InitSession /\ [][NextNoise]_vars

\* The happy path: two sockets of the default MTU and any retry budget over
\* a channel that loses nothing.  The server accepts, then the client
\* connects; the client sends 10 bytes and the server receives into a buffer
\* of 1024; each side calls disconnect when its data call has returned.  A
\* timeout passes only in disconnect, when nothing is there to read.  The
\* log of the wire is kept.
InitScenario ==
    /\ wire = Traced
    /\ raw = NoDatagram("little")
    /\ \E max_retries \in [Endpoints -> RetrySet] :
          Constructed([e \in Endpoints |-> RUDP_MTU_DEFAULT],
                      [e \in Endpoints |-> RUDP_MINIMAL_TIMEOUT],
                      max_retries)

NextScenario ==
    \/ calls["server"] = 0 /\ accept("server")
    \/ calls["client"] = 0 /\ pc["server"] = "accept_wait" /\ connect("client", "server")
    \/ calls["client"] = 1 /\ m_isConnected["client"] /\ send("client", Message(1, 10))
    \/ calls["server"] = 1 /\ m_isConnected["server"] /\ recv("server", 1024)
    \/ \E e \in Endpoints : calls[e] = 2 /\ disconnect(e)
    \/ accept_readable("server")
    \/ connect_readable("client")
    \/ send_readable("client")
    \/ recv_first_readable("server")
    \/ \E e \in Endpoints : disconnect_readable(e)
    \/ \E e \in Endpoints : net[e] = <<>> /\ disconnect_timeout(e)

SpecScenario == InitScenario /\ [][NextScenario]_vars

\* The codec: on a machine of either byte order, a connected client of
\* either MTU builds one packet: a control packet of any combination of
\* flags, or a segment of a message of any of the lengths and of either
\* content; the bytes reach the server whole, or with one bit flipped, and
\* the server's validator judges them against the flags of the packet or
\* against the ACK mask.
SeqNums == {0, 1, 16909060}

AllFlags == 0 .. (2 * RUDP_FLAG_FIN - 1)

\* a buffer of bytes 0xFF
Ones(len) == [j \in 1 .. len |-> 255]

InitChecksum ==
    /\ Connected
    /\ m_protocolMTU["client"] = m_protocolMTU["server"]
    /\ m_protocolMaximumRetries = [e \in Endpoints |-> MaxRetries]
    /\ wire = Untraced
    /\ \E host \in Hosts : raw = NoDatagram(host)

NextChecksum ==
    \/ \E flags \in AllFlags, seq_num \in SeqNums : emit_control("client", flags, seq_num)
    \/ \E len \in Lens, i \in 0 .. (MaxSegs - 1) :
          \/ emit_data("client", Message(1, len), i)
          \/ emit_data("client", Ones(len), i)
    \/ \E j \in 1 .. (HEADER_SIZE + MaxLen), b \in 0 .. 7 : corrupt(j, b)
    \/ validate("server", raw.flags)
    \/ validate("server", RUDP_FLAG_ACK)

SpecChecksum == InitChecksum /\ [][NextChecksum]_vars

\* Black hole: a client socket constructed with any of the arguments of
\* Configuration calls connect up to MaxCalls times towards an address where
\* nothing answers; its SYN packets are lost and no datagram ever arrives at
\* the client.  poll returns after m_protocolTimeout milliseconds at the
\* latest, so a waiting connect always gets its timeout: weak fairness of
\* connect_timeout.
NextBlackHole ==
    \/ calls["client"] < MaxCalls /\ connect("client", Peer("client"))
    \/ connect_timeout("client")
    \/ lose("server")

SpecBlackHole ==
    InitConfig /\ [][NextBlackHole]_vars /\ WF_vars(connect_timeout("client"))

(***************************************************************************)
(* Vocabulary of the properties                                            *)
(***************************************************************************)
SendReturned(e) == op[e] = "send" /\ pc[e] = "returned"

RecvReturned(e) == op[e] = "recv" /\ pc[e] = "returned"

EqualMTU == m_protocolMTU["client"] = m_protocolMTU["server"]

\* the buffer of the client's k-th send
Sent(k) == msgs["client"][k]

\* the first n bytes of the buffer the server's recv was given
Received(n) == Slice(loc["server"].buffer, 0, Min(n, loc["server"].buffer_size))

\* segment s of a message cut in units of seg, the last of n segments flagged
SegmentOf(buffer, seg, n, s) ==
    [seq_num |-> s,
     flags |-> IF s = n - 1 THEN RUDP_FLAG_PSH + RUDP_FLAG_LAST ELSE RUDP_FLAG_PSH,
     data |-> Slice(buffer, s * seg, Min(seg, Len(buffer) - s * seg))]

(***************************************************************************)
(* The claims                                                              *)
(***************************************************************************)
\* C1: round trip.  Between endpoints configured with the same MTU, when
\* send(B) has returned without error and the matching recv(buf, cap) with
\* Len(B) <= cap has returned without error, recv returned Len(B) and
\* buf[0 .. Len(B)) equals B, whatever was lost, delayed or retransmitted.
C1_RoundTrip ==
    (/\ EqualMTU
     /\ SendReturned("client")
     /\ RecvReturned("server")
     /\ Len(Sent(1)) <= loc["server"].buffer_size)
    => /\ ret["server"] = Len(Sent(1))
       /\ Received(Len(Sent(1))) = Sent(1)

\* C2: progress on a good link (specification SpecGood: nothing is lost,
\* duplicated or reordered, no timeout fires).  Between endpoints with the
\* same MTU, once send(B) and recv(buf, cap) with cap >= Len(B) are both
\* under way, eventually both have returned, each with Len(B).
C2_Progress ==
    (/\ EqualMTU
     /\ op["client"] = "send"
     /\ op["server"] = "recv"
     /\ loc["server"].buffer_size >= loc["client"].buffer_size)
    ~> (/\ SendReturned("client")
        /\ RecvReturned("server")
        /\ ret["client"] = Len(Sent(1))
        /\ ret["server"] = Len(Sent(1)))

\* a message of more than one segment went through, both calls returning its
\* length
C2_Witness ==
    /\ EqualMTU
    /\ SendReturned("client")
    /\ RecvReturned("server")
    /\ Len(Sent(1)) > segment_size("client")
    /\ ret["client"] = Len(Sent(1))
    /\ ret["server"] = Len(Sent(1))

\* the buffer of the send that is matched by the server's current recv
Matching == Sent(calls["server"])

\* C3: in-order, exactly-once delivery across calls (specification
\* SpecCalls).  The first segment the server's k-th recv accepts is segment 0
\* of the client's k-th message, never a datagram left over from an earlier
\* call; and the k-th recv, when it returns with a buffer that can hold the
\* k-th message, returns exactly that message.
C3_InOrderAcrossCalls ==
    /\ (op["server"] = "recv" /\ obs["server"].accepted # <<>>)
       => /\ Len(msgs["client"]) >= calls["server"]
          /\ obs["server"].accepted[1].seq_num = 0
          /\ obs["server"].accepted[1].data =
                Slice(Matching, 0, Min(segment_size("client"), Len(Matching)))
    /\ (/\ RecvReturned("server")
        /\ Len(msgs["client"]) >= calls["server"]
        /\ Len(Matching) <= loc["server"].buffer_size)
       => /\ ret["server"] = Len(Matching)
          /\ Received(Len(Matching)) = Matching

\* C4: return value of send.  A send of len > 0 bytes that returns without
\* an error returns len, or 0 with the endpoint disconnected; never a value
\* strictly between 0 and len.
C4_SendReturnsAllOrNothing ==
    (SendReturned("client") /\ loc["client"].buffer_size > 0)
    => \/ ret["client"] = loc["client"].buffer_size
       \/ ret["client"] = 0 /\ ~m_isConnected["client"]

\* the server's recv that matches the client's current send has accepted
\* segment s of the message being sent: that recv has been called, and while
\* it is the server's latest call, s with its bytes is among the segments it
\* accepted
AcceptedByPeer(s) ==
    /\ calls["server"] >= calls["client"]
    /\ calls["server"] = calls["client"]
       => \E k \in 1 .. Len(obs["server"].accepted) :
             /\ obs["server"].accepted[k].seq_num = s
             /\ obs["server"].accepted[k].data =
                   Slice(loc["client"].buffer, s * segment_size("client"),
                         Min(segment_size("client"),
                             loc["client"].buffer_size - s * segment_size("client")))

\* C5: stop-and-wait invariant (specification SpecCalls).  In every state,
\* every segment the sender counts as acknowledged (an index below
\* total_packets) has been accepted by the peer's recv for this message.
C5_StopAndWait ==
    op["client"] = "send"
    => \A s \in 0 .. (loc["client"].total_packets - 1) : AcceptedByPeer(s)

\* the segments a send of buffer in units of seg emits when it emits n of them
SegmentsOf(buffer, seg, n) == {SegmentOf(buffer, seg, n, s) : s \in 0 .. (n - 1)}

\* a send that needed no retransmission emits segments of the n its buffer is
\* cut in and no other, and by the time it returned all n, each once
EmitsExactly(n) ==
    /\ (op["client"] = "send" /\ loc["client"].retry_packets = 0)
       => obs["client"].emitted \subseteq
              SegmentsOf(loc["client"].buffer, segment_size("client"), n)
    /\ (/\ SendReturned("client")
        /\ m_isConnected["client"]
        /\ loc["client"].retry_packets = 0)
       => /\ obs["client"].emitted =
                 SegmentsOf(loc["client"].buffer, segment_size("client"), n)
          /\ loc["client"].total_actual_packets = n

\* C6, as the code has it: a send of len bytes that needs no retransmission
\* emits exactly n = floor(len / seg) + 1 data segments, numbered 0 .. n-1,
\* LAST on segment n-1 only: when len is a positive multiple of seg the last
\* one is empty.  That is 7252 segments for len = 10485760 and seg = 1446,
\* and 21 for len = 10000 and seg = 488.
C6_SegmentCount ==
    /\ EmitsExactly((loc["client"].buffer_size \div segment_size("client")) + 1)
    /\ expected_packets(10485760, 1446) = 7252
    /\ expected_packets(10000, 488) = 21

\* a send of a positive multiple of seg bytes returned after its n segments,
\* the last of them empty
C6_Witness ==
    /\ SendReturned("client")
    /\ loc["client"].retry_packets = 0
    /\ loc["client"].buffer_size = 2 * segment_size("client")
    /\ ret["client"] = loc["client"].buffer_size
    /\ loc["client"].total_actual_packets = 3

\* C6, as stated: a send of len bytes that needs no retransmission emits
\* exactly n data segments, n = ceil(len / seg) for len > 0 and 1 for
\* len = 0, numbered 0 .. n-1, LAST on segment n-1 only.
C6_SegmentCountCeil ==
    LET len == loc["client"].buffer_size
        seg == segment_size("client")
    IN  EmitsExactly(IF len = 0 THEN 1 ELSE (len + seg - 1) \div seg)

\* C7: MTU negotiation.  Both sides use seg = min(cfg_mtu, peer_mtu) - 12:
\* the receiver stores the segment with sequence number s at offset s * seg,
\* and a message that send delivered whole into a buffer that can hold it is
\* reassembled contiguously, whichever side has the larger MTU.
C7_MTUNegotiation ==
    /\ segment_size("client") = segment_size("server")
    /\ op["server"] = "recv"
       => \A k \in 2 .. Len(obs["server"].accepted) :
             recv_offset("server", obs["server"].accepted[k].seq_num)
                = obs["server"].accepted[k].seq_num * segment_size("server")
    /\ (/\ SendReturned("client")
        /\ RecvReturned("server")
        /\ ret["client"] = Len(Sent(1))
        /\ Len(Sent(1)) <= loc["server"].buffer_size)
       => Received(Len(Sent(1))) = Sent(1)

\* C8: buffer-bounds safety.  No memcpy of recv writes at an index >= cap:
\* for every accepted segment offset + copied length <= cap.
C8_BufferBounds == obs["server"].overrun = {}

\* C9: truncation is reported.  When the message is longer than cap, a recv
\* that returns without error returns a count > cap, and buf[0 .. cap) holds
\* the first cap bytes of the message.
C9_TruncationReported ==
    (/\ RecvReturned("server")
     /\ m_isConnected["server"]
     /\ calls["client"] > 0
     /\ Len(Sent(1)) > loc["server"].buffer_size)
    => /\ ret["server"] > loc["server"].buffer_size
       /\ loc["server"].buffer = Slice(Sent(1), 0, loc["server"].buffer_size)

\* the one segment of an empty message
EmptySegment ==
    [seq_num |-> 0, flags |-> RUDP_FLAG_PSH + RUDP_FLAG_LAST, data |-> <<>>]

\* C10: empty send.  A send of 0 bytes on a connected endpoint puts one data
\* segment on the wire, PSH|LAST with seq_num 0 and length 0 (once, and once
\* more per retransmission); a recv of the peer that takes it acknowledges
\* it, returns 0 and stays connected.
C10_EmptySend ==
    /\ (/\ op["client"] = "send"
        /\ pc["client"] # "thrown"
        /\ loc["client"].buffer_size = 0)
       => /\ obs["client"].emitted = {EmptySegment}
          /\ loc["client"].expected_packets = 1
          /\ loc["client"].total_actual_packets = 1 + loc["client"].retry_packets
    /\ (/\ op["server"] = "recv"
        /\ obs["server"].accepted # <<>>
        /\ obs["server"].accepted[1] = EmptySegment)
       => /\ pc["server"] = "returned"
          /\ ret["server"] = 0
          /\ m_isConnected["server"]
          /\ obs["server"].acked = {0}

\* an empty message went through: send returned 0 bytes, connected, and recv
\* returned 0 after taking the empty segment
C10_Witness ==
    /\ SendReturned("client")
    /\ loc["client"].buffer_size = 0
    /\ m_isConnected["client"]
    /\ RecvReturned("server")
    /\ obs["server"].accepted = <<EmptySegment>>
    /\ ret["server"] = 0

\* connect has returned true on the client and accept has returned true on
\* the server, and neither endpoint has made a call since
HandshakeDone ==
    /\ op["client"] = "connect" /\ pc["client"] = "returned" /\ ret["client"] = 1
    /\ op["server"] = "accept" /\ pc["server"] = "returned" /\ ret["server"] = 1

\* C11: once connect has returned true on the client and accept has returned
\* true on the server, both endpoints are connected, the server's peer
\* address is the client's address, and each endpoint's m_peersMTU is the
\* MTU the other endpoint is configured with.
C11_HandshakePostcondition ==
    HandshakeDone =>
        /\ \A e \in Endpoints : m_isConnected[e]
        /\ m_destinationAddress4["server"] = "client"
        /\ \A e \in Endpoints : m_peersMTU[e] = m_protocolMTU[Peer(e)]

\* C12: an endpoint that is connected has a peer address other than
\* 0.0.0.0:0 and an m_peersMTU of at least RUDP_MINIMAL_MTU, whatever
\* datagram made connect or accept succeed.
C12_ConnectedInvariant ==
    \A e \in Endpoints :
        m_isConnected[e] =>
            /\ m_destinationAddress4[e] # ZeroAddress
            /\ m_peersMTU[e] >= RUDP_MINIMAL_MTU

\* C13: m_peersMTU is cleared on teardown: an endpoint that is not connected
\* has m_peersMTU = 0, after disconnect has returned and after a FIN of the
\* peer has closed the connection alike.
C13_PeerMTUCleared ==
    \A e \in Endpoints : ~m_isConnected[e] => m_peersMTU[e] = 0

\* endpoint e makes a call of a setter in this step
SetterCalled(e) ==
    /\ calls'[e] = calls[e] + 1
    /\ op'[e] \in {"setMTU", "setTimeout", "setMaxRetries"}

\* C14: the configuration is frozen while connected: a setter called on a
\* connected endpoint is refused, and no step changes m_protocolMTU,
\* m_protocolTimeout or m_protocolMaximumRetries of a connected endpoint.
C14_ConfigFrozenWhileConnected ==
    [][\A e \in Endpoints :
          m_isConnected[e] =>
              /\ SetterCalled(e) => pc'[e] = "thrown"
              /\ m_protocolMTU'[e] = m_protocolMTU[e]
              /\ m_protocolTimeout'[e] = m_protocolTimeout[e]
              /\ m_protocolMaximumRetries'[e] = m_protocolMaximumRetries[e]]_vars

\* the constructor of e returned: there is a socket object
Exists(e) == pc[e] # "no_object"

\* the configured values of e are within their bounds
WithinBounds(e) ==
    /\ m_protocolMTU[e] >= RUDP_MINIMAL_MTU
    /\ m_protocolTimeout[e] >= RUDP_MINIMAL_TIMEOUT
    /\ m_protocolMaximumRetries[e] >= 1

\* C15: every socket that exists has m_protocolMTU >= RUDP_MINIMAL_MTU,
\* m_protocolTimeout >= RUDP_MINIMAL_TIMEOUT and m_protocolMaximumRetries >= 1:
\* the constructor and each setter reject a value below its minimum; and a
\* setter call that is rejected leaves the three values as they were.
C15_ConfigBounds ==
    /\ [](\A e \in Endpoints : Exists(e) => WithinBounds(e))
    /\ [][\A e \in Endpoints :
             SetterCalled(e) /\ pc'[e] = "thrown" =>
                 /\ m_protocolMTU'[e] = m_protocolMTU[e]
                 /\ m_protocolTimeout'[e] = m_protocolTimeout[e]
                 /\ m_protocolMaximumRetries'[e] = m_protocolMaximumRetries[e]]_vars

\* a setter was called on a socket that is not connected, with a value
\* below its minimum, and threw
C15_Witness ==
    \E e \in Endpoints :
        /\ op[e] \in {"setMTU", "setTimeout", "setMaxRetries"}
        /\ pc[e] = "thrown"
        /\ ~m_isConnected[e]
        /\ WithinBounds(e)

\* endpoint e makes the call named name in this step
Called(e, name) == calls'[e] = calls[e] + 1 /\ op'[e] = name

\* the call endpoint e makes in this step is one its state does not allow:
\* connect on a server, accept on a client, connect or accept on a connected
\* endpoint, send, recv or disconnect on one that is not connected
StateErrorCall(e) ==
    \/ Called(e, "connect") /\ (m_isServer(e) \/ m_isConnected[e])
    \/ Called(e, "accept") /\ (~m_isServer(e) \/ m_isConnected[e])
    \/ Called(e, "send") /\ ~m_isConnected[e]
    \/ Called(e, "recv") /\ ~m_isConnected[e]
    \/ Called(e, "disconnect") /\ ~m_isConnected[e]

\* C16: a call the state of the endpoint does not allow fails with an
\* error, sends no datagram, and leaves m_isConnected, m_destinationAddress4
\* and m_peersMTU as they were (the role, m_isServer, never changes).
C16_StateErrorsNoSideEffects ==
    [][\A e \in Endpoints :
          StateErrorCall(e) =>
              /\ pc'[e] = "thrown"
              /\ net' = net
              /\ outside' = outside
              /\ m_isConnected'[e] = m_isConnected[e]
              /\ m_destinationAddress4'[e] = m_destinationAddress4[e]
              /\ m_peersMTU'[e] = m_peersMTU[e]]_vars

\* a connected client, with a peer address and a peer MTU to lose, has
\* called connect again and the call threw
C16_Witness ==
    /\ op["client"] = "connect"
    /\ pc["client"] = "thrown"
    /\ m_isConnected["client"]
    /\ m_peersMTU["client"] = m_protocolMTU["server"]
    /\ m_destinationAddress4["client"] = "server"

\* C17: teardown is idempotent: within a disconnect call m_isConnected goes
\* from true to false and never back, and a disconnect call that follows a
\* disconnect call that returned fails with a state error, sends no FIN and
\* changes nothing.
C17_IdempotentTeardown ==
    [][\A e \in Endpoints :
          /\ op[e] = "disconnect" /\ calls'[e] = calls[e] =>
                (m_isConnected'[e] => m_isConnected[e])
          /\ op[e] = "disconnect" /\ pc[e] = "returned" /\ Called(e, "disconnect") =>
                /\ pc'[e] = "thrown"
                /\ net' = net
                /\ outside' = outside
                /\ m_isConnected' = m_isConnected
                /\ cfg' = cfg]_vars

\* the client has connected to the server, disconnected, and called
\* disconnect a second time
C17_Witness ==
    /\ calls["client"] = 3
    /\ op["client"] = "disconnect"
    /\ pc["client"] = "thrown"
    /\ m_peersMTU["client"] = m_protocolMTU["server"]
    /\ calls["server"] = 1
    /\ op["server"] = "accept"

\* C18: every disconnect call that returns leaves the endpoint not
\* connected, with the peer address cleared, and reports success, also when
\* the retries ran out and no FIN|ACK arrived.
C18_DisconnectAlwaysDisconnects ==
    \A e \in Endpoints :
        op[e] = "disconnect" /\ pc[e] = "returned" =>
            /\ ~m_isConnected[e]
            /\ m_destinationAddress4[e] = ZeroAddress
            /\ ret[e] = 1

\* a disconnect call returned after the last of its retries timed out
C18_Witness ==
    \E e \in Endpoints :
        /\ op[e] = "disconnect"
        /\ pc[e] = "returned"
        /\ loc[e].num_of_tries = m_protocolMaximumRetries[e]
        /\ ret[e] = 1

\* endpoint e, inside connect, send, recv or disconnect, takes the datagram
\* pkt in this step: from the head of its queue, or from the third host
Reads(e, pkt) ==
    \/ /\ net[e] # <<>>
       /\ pkt = Head(net[e])
       /\ \/ connect_readable(e)
          \/ send_readable(e)
          \/ recv_first_readable(e)
          \/ recv_readable(e)
          \/ disconnect_readable(e)
    \/ /\ pkt \in StrayPackets
       /\ pc[e] # "accept_wait"
       /\ stray(e, pkt)

\* the datagrams endpoint e can take in this step
Readable(e) == StrayPackets \cup (IF net[e] # <<>> THEN {Head(net[e])} ELSE {})

\* the FIN endpoint e sends to the address src
RejectionTo(e, src) == send_control_packet(e, RUDP_FLAG_FIN, 0, src)

\* in this step endpoint e sends exactly one FIN to src, an address that is
\* not its peer: to a host outside, or to the other endpoint (whose queue
\* may be full)
OneRejection(e, src) ==
    IF src \in Endpoints
    THEN /\ \/ net'[src] = Append(net[src], RejectionTo(e, src).pkt)
            \/ Len(net[src]) = MaxInFlight /\ net'[src] = net[src]
         /\ \A j \in 1 .. Len(outside'[e]) : outside'[e][j].to # src
    ELSE outside'[e] = Append(outside[e], [to |-> src, flags |-> RUDP_FLAG_FIN])

\* C19: a datagram from an address other than the peer's, of whatever
\* flags, that connect, send, recv or disconnect takes from the socket makes
\* the endpoint send exactly one FIN to that address and leaves
\* m_isConnected, m_destinationAddress4, m_peersMTU, prev_seq_num, the user
\* buffer and the retry counter of the loop as they were.
C19_ForeignPeerIsolation ==
    [][\A e \in Endpoints : \A pkt \in Readable(e) :
          pkt.src # m_destinationAddress4[e] /\ Reads(e, pkt)
          => /\ OneRejection(e, pkt.src)
             /\ m_isConnected'[e] = m_isConnected[e]
             /\ m_destinationAddress4'[e] = m_destinationAddress4[e]
             /\ m_peersMTU'[e] = m_peersMTU[e]
             /\ loc'[e].prev_seq_num = loc[e].prev_seq_num
             /\ loc'[e].buffer = loc[e].buffer
             /\ loc'[e].num_of_tries = loc[e].num_of_tries]_vars

\* the server, connected to the client by its first call, has met a
\* datagram of the third host inside recv, after the first segment, and has
\* answered it with a FIN
C19_Witness ==
    /\ calls["server"] = 2
    /\ op["server"] = "recv"
    /\ pc["server"] = "recv_poll"
    /\ m_destinationAddress4["server"] = "client"
    /\ outside["server"] = <<[to |-> Stranger, flags |-> RUDP_FLAG_FIN]>>

\* C20: a send of k segments passes at most k * m_protocolMaximumRetries data
\* packets to sendto, whatever the network does: losses, invalid packets,
\* stale or duplicate ACKs, datagrams from addresses that are not the peer's.
C20_BoundedEffort ==
    \A e \in Endpoints :
        op[e] = "send" =>
            loc[e].total_actual_packets
                <= loc[e].expected_packets * m_protocolMaximumRetries[e]

\* C21: one connect call passes at most max_retries SYN packets to sendto,
\* and one disconnect call at most max_retries FIN packets for its peer,
\* whatever arrives, datagrams from other addresses included.
C21_BoundedControlEffort ==
    \A e \in Endpoints :
        op[e] \in {"connect", "disconnect"}
            => loc[e].total_actual_packets <= m_protocolMaximumRetries[e]

\* connect on e returned false after passing exactly max_retries SYN packets
\* to sendto, and left the socket disconnected
ConnectGaveUp(e) ==
    /\ op[e] = "connect"
    /\ pc[e] = "returned"
    /\ ret[e] = 0
    /\ ~m_isConnected[e]
    /\ loc[e].total_actual_packets = m_protocolMaximumRetries[e]

\* C22: when no datagram ever arrives at the client, a connect that waits
\* for its answer ends, and a connect that ended returned false after exactly
\* max_retries SYN packets with connected = false.
C22_BlackHoleConnect ==
    /\ (pc["client"] = "connect_poll") ~> ConnectGaveUp("client")
    /\ [](op["client"] = "connect" /\ pc["client"] # "connect_poll"
             => ConnectGaveUp("client"))

C22_Witness == ConnectGaveUp("client") /\ m_protocolMaximumRetries["client"] = MaxRetries

\* in this step endpoint e, connected and inside send or recv, takes from its
\* socket a datagram of its peer whose flags are exactly FIN
PeerClose(e) ==
    /\ m_isConnected[e]
    /\ net[e] # <<>>
    /\ Head(net[e]).src = m_destinationAddress4[e]
    /\ Head(net[e]).flags = RUDP_FLAG_FIN
    /\ send_readable(e) \/ recv_first_readable(e) \/ recv_readable(e)

\* in this step endpoint e passes one control packet of these flags for its
\* peer to sendto, and nothing else (the peer's queue may be full)
Answers(e, flags) ==
    LET d == send_control_packet(e, flags, 0, m_destinationAddress4[e])
    IN  /\ net'[d.to] = sendto(net, d)[d.to]
        /\ outside' = outside

\* C23: a connected endpoint that, inside send or recv, takes a bare FIN of
\* its peer sends one FIN|ACK to the peer, clears m_isConnected and returns
\* 0; while m_isConnected is false every send, recv and disconnect fails with
\* a state error and sends nothing, and only a connect or an accept sets
\* m_isConnected again.
C23_PeerClose ==
    [][\A e \in Endpoints :
          /\ PeerClose(e) =>
                /\ Answers(e, RUDP_FLAG_FIN + RUDP_FLAG_ACK)
                /\ ~m_isConnected'[e]
                /\ pc'[e] = "returned"
                /\ ret'[e] = 0
          /\ /\ ~m_isConnected[e]
             /\ Called(e, "send") \/ Called(e, "recv") \/ Called(e, "disconnect")
             => /\ pc'[e] = "thrown"
                /\ ~m_isConnected'[e]
                /\ net' = net
                /\ outside' = outside
          /\ ~m_isConnected[e] /\ m_isConnected'[e] => op'[e] \in {"connect", "accept"}]_vars

\* the client's send was ended by the FIN of the server's disconnect, the
\* FIN|ACK reached the server, and the send the client called next threw
C23_Witness ==
    /\ calls["client"] = 2
    /\ op["client"] = "send"
    /\ pc["client"] = "thrown"
    /\ ~m_isConnected["client"]
    /\ m_destinationAddress4["client"] = "server"
    /\ op["server"] = "disconnect"
    /\ pc["server"] = "returned"
    /\ loc["server"].num_of_tries = 0

\* in this step endpoint e, inside connect, takes from its socket a datagram
\* of the address it dialled whose flags are exactly FIN
ConnectRejected(e) ==
    /\ net[e] # <<>>
    /\ Head(net[e]).src = m_destinationAddress4[e]
    /\ Head(net[e]).flags = RUDP_FLAG_FIN
    /\ connect_readable(e)

\* C24: a connect that takes a bare FIN of the dialled address fails at once
\* with the connection-rejected error: it sends no further SYN nor anything
\* else, and m_isConnected stays false.
C24_RejectedConnect ==
    [][\A e \in Endpoints :
          ConnectRejected(e) =>
              /\ pc'[e] = "thrown"
              /\ ~m_isConnected'[e]
              /\ net'[Peer(e)] = net[Peer(e)]
              /\ outside' = outside
              /\ loc'[e].total_actual_packets = loc[e].total_actual_packets]_vars

\* the client's connect was rejected after its first SYN by a server that
\* is connected to the third host
C24_Witness ==
    /\ op["client"] = "connect"
    /\ pc["client"] = "thrown"
    /\ ~m_isConnected["client"]
    /\ loc["client"].total_actual_packets = 1
    /\ m_destinationAddress4["client"] = "server"
    /\ m_isConnected["server"]
    /\ m_destinationAddress4["server"] = Stranger

\* the trace of the happy path: SYN, SYN|ACK, PSH|LAST with sequence number
\* 0 and 10 bytes, ACK with sequence number 0, FIN, FIN|ACK
HappyTraceFlags ==
    <<RUDP_FLAG_SYN, RUDP_FLAG_SYN + RUDP_FLAG_ACK, RUDP_FLAG_PSH + RUDP_FLAG_LAST,
      RUDP_FLAG_ACK, RUDP_FLAG_FIN, RUDP_FLAG_FIN + RUDP_FLAG_ACK>>

\* the k-th datagram of the log is the k-th of the trace
OnHappyTrace(k) ==
    /\ k <= Len(HappyTraceFlags)
    /\ wire.log[k].flags = HappyTraceFlags[k]
    /\ HasFlag(wire.log[k].flags, RUDP_FLAG_PSH) => wire.log[k].seq_num = 0 /\ wire.log[k].length = 10
    /\ wire.log[k].flags = RUDP_FLAG_ACK => wire.log[k].seq_num = 0

\* both sides have called disconnect and both calls are over
TeardownOver == \A e \in Endpoints : op[e] = "disconnect" /\ pc[e] \in {"returned", "thrown"}

\* C25: on a lossless channel the scenario accept / connect, send of 10
\* bytes, recv with capacity 1024, disconnect on both sides puts on the wire
\* SYN, SYN|ACK, PSH|LAST(seq 0, len 10), ACK(seq 0), FIN, FIN|ACK in this
\* order and nothing else: the log is at every moment the beginning of this
\* trace, and the whole of it when the teardown is over.
C25_HappyPathTrace ==
    /\ \A k \in 1 .. Len(wire.log) : OnHappyTrace(k)
    /\ TeardownOver => Len(wire.log) = Len(HappyTraceFlags)

\* both endpoints are in, or have left, a send that is their first call: the
\* two sends run at the same time and neither side has called recv
ConcurrentSend == \A e \in Endpoints : op[e] = "send" /\ calls[e] = 1

\* C26: when both connected endpoints call send at the same time and neither
\* calls recv, neither send returns: both run out of retries, and no send
\* reports bytes the other side never received.
C26_ConcurrentSendFails ==
    ConcurrentSend => \A e \in Endpoints : pc[e] # "returned"

\* C27: every packet the endpoint builds, a control packet of any flags with
\* or without the SYN payload or a data packet of any payload length, is
\* accepted by the validator when its bytes arrive as sent and the expected
\* mask is the packet's flags.
C27_ChecksumRoundTrip ==
    raw.stage = "validated" /\ ~raw.flipped /\ raw.expected = raw.flags
        => raw.verdict = 1

\* a data packet of an odd payload length, of bytes 0xFF, was accepted
C27_Witness ==
    /\ raw.stage = "validated"
    /\ ~raw.flipped
    /\ raw.expected = raw.flags
    /\ raw.flags = RUDP_FLAG_PSH + RUDP_FLAG_LAST
    /\ Len(raw.bytes) = HEADER_SIZE + 1
    /\ raw.bytes[HEADER_SIZE + 1] = 255
    /\ raw.verdict = 1

\* C28: a datagram the endpoint sent, with one bit outside the checksum field
\* flipped, is dropped by the receiver's validator.
C28_ChecksumDetection ==
    raw.stage = "validated" /\ raw.flipped => raw.verdict = 0

\* a data packet of an odd payload length whose last byte lost a bit was
\* dropped
C28_Witness ==
    /\ raw.stage = "validated"
    /\ raw.flipped
    /\ raw.flags = RUDP_FLAG_PSH + RUDP_FLAG_LAST
    /\ Len(raw.bytes) = HEADER_SIZE + 1
    /\ raw.bytes[HEADER_SIZE + 1] = 127
    /\ raw.verdict = 0

\* C29: every data packet a send call passes to sendto with sequence number
\* s is segment s of the buffer: it carries the bytes from s * seg up to
\* min((s + 1) * seg, len) and the LAST flag if and only if s is the index of
\* the last segment, whatever timeouts, stale ACKs and duplicate ACKs the
\* call went through.
C29_SeqNumIsSegmentIndex ==
    op["client"] = "send" =>
        \A p \in obs["client"].emitted :
            /\ p.seq_num \in 0 .. (loc["client"].expected_packets - 1)
            /\ p = SegmentOf(loc["client"].buffer, segment_size("client"),
                             loc["client"].expected_packets, p.seq_num)

\* in this step the send of endpoint e, waiting on a segment that is not the
\* last, takes a valid ACK of its peer whose seq_num is that of the ACK it
\* accepted before
DuplicateAck(e) ==
    /\ net[e] # <<>>
    /\ ~check_packet_source(e, Head(net[e]))
    /\ check_packet_validity(e, Head(net[e]), RUDP_FLAG_ACK) = 1
    /\ Head(net[e]).flags = RUDP_FLAG_ACK
    /\ Head(net[e]).seq_num = loc[e].prev_seq_num
    /\ loc[e].i # loc[e].expected_packets - 1
    /\ send_readable(e)

\* C30: a sender that waits on the non-final segment j and takes a duplicate
\* of the ACK it accepted before stops waiting on j, and the data packet it
\* sends next is segment j + 1 with seq_num j + 1, not segment j nor an
\* earlier one.
C30_DuplicateAckTolerance ==
    [][DuplicateAck("client") =>
          /\ pc'["client"] = "send_poll"
          /\ LET next == data_packet("client", loc'["client"])
                 segment == SegmentOf(loc["client"].buffer, segment_size("client"),
                                      loc["client"].expected_packets,
                                      loc["client"].total_packets + 1)
             IN  /\ next.seq_num = segment.seq_num
                 /\ next.flags = segment.flags
                 /\ next.data = segment.data]_vars

\* in this step the recv of endpoint e, past its first segment, takes a valid
\* datagram of its peer
TakesSegment(e) ==
    /\ net[e] # <<>>
    /\ ~check_packet_source(e, Head(net[e]))
    /\ check_packet_validity(e, Head(net[e]), RUDP_FLAG_PSH) = 1
    /\ recv_readable(e)

\* in this step endpoint e passes one ACK with this sequence number for its
\* peer to sendto, and nothing else (the peer's queue may be full)
Acks(e, seq_num) ==
    /\ net'[Peer(e)] = sendto(net, ack_packet(e, seq_num))[Peer(e)]
    /\ outside' = outside

\* the user buffer, total_bytes and prev_seq_num of the recv of endpoint e
\* stay as they are
KeepsReceived(e) ==
    /\ loc'[e].buffer = loc[e].buffer
    /\ loc'[e].total_bytes = loc[e].total_bytes
    /\ loc'[e].prev_seq_num = loc[e].prev_seq_num

\* C31: a valid data segment whose seq_num is that of the segment recv
\* accepted last leaves the user buffer, total_bytes and prev_seq_num as they
\* are, is answered with one ACK carrying prev_seq_num, and takes nothing
\* from the tries recv has for the next segment.
C31_DuplicateSegment ==
    [][\A e \in Endpoints :
          TakesSegment(e) /\ Head(net[e]).seq_num = loc[e].prev_seq_num
          => /\ KeepsReceived(e)
             /\ Acks(e, loc[e].prev_seq_num)
             /\ pc'[e] = "recv_poll"
             /\ loc'[e].num_of_tries <= loc[e].num_of_tries]_vars

\* the server's recv, which has accepted segment 0 only, has acknowledged it
\* twice: the segment came a second time
C31_Witness ==
    /\ op["server"] = "recv"
    /\ pc["server"] = "recv_poll"
    /\ loc["server"].total_packets = 1
    /\ loc["server"].prev_seq_num = 0
    /\ Len(net["client"]) = 2
    /\ \A k \in 1 .. 2 : /\ net["client"][k].flags = RUDP_FLAG_ACK
                         /\ net["client"][k].seq_num = 0

\* the sequence numbers of the segments the recv of endpoint e has accepted
\* in this call go up by one
Consecutive(e) ==
    \A k \in 2 .. Len(obs[e].accepted) :
        obs[e].accepted[k].seq_num = obs[e].accepted[k - 1].seq_num + 1

\* the next datagram of a recv past its first segment is a valid segment of
\* the peer that is neither the one accepted last nor its successor
OutOfOrder(e) ==
    /\ pc[e] = "recv_poll"
    /\ net[e] # <<>>
    /\ ~check_packet_source(e, Head(net[e]))
    /\ check_packet_validity(e, Head(net[e]), RUDP_FLAG_PSH) = 1
    /\ Head(net[e]).seq_num \notin {loc[e].prev_seq_num, loc[e].prev_seq_num + 1}

\* C32: after its first segment recv accepts a segment only if its seq_num is
\* prev_seq_num + 1, so the sequence numbers accepted in one call are
\* consecutive; a valid segment with any other seq_num leaves the user
\* buffer, total_bytes and prev_seq_num as they are and is answered with the
\* ACK of prev_seq_num.
C32_InOrderAcceptance ==
    /\ [](\A e \in Endpoints : op[e] = "recv" => Consecutive(e))
    /\ [][\A e \in Endpoints :
             TakesSegment(e)
             => /\ obs'[e].accepted # obs[e].accepted
                   => Head(net[e]).seq_num = loc[e].prev_seq_num + 1
                /\ Head(net[e]).seq_num # loc[e].prev_seq_num + 1
                   => KeepsReceived(e) /\ Acks(e, loc[e].prev_seq_num)]_vars

\* a recv that has accepted segments is handed a segment out of order
C32_Witness ==
    \E e \in Endpoints : OutOfOrder(e) /\ obs[e].accepted # <<>>

\* the user buffer of the recv of endpoint e holds the payload of the first
\* segment it accepted at the offset of that segment's sequence number,
\* clipped to the capacity, and nothing else
FirstPlaced(e) ==
    LET first == obs[e].accepted[1]
        cap == loc[e].buffer_size
        offset == recv_offset(e, first.seq_num)
        room == IF cap > offset THEN cap - offset ELSE 0
        n == IF Len(first.data) > room THEN room ELSE Len(first.data)
    IN  loc[e].buffer = memcpy([j \in 1 .. cap |-> 0], offset, first.data, n)

\* C33: the first segment a recv call accepts, with sequence number s0, is
\* stored in the user buffer at offset s0 * seg, clipped so that offset +
\* length <= cap.
C33_FirstSegmentPlacement ==
    \A e \in Endpoints :
        op[e] = "recv" /\ pc[e] \in {"recv_poll", "returned"}
                       /\ Len(obs[e].accepted) = 1
        => FirstPlaced(e)

\* in this step the accept of endpoint e takes the datagram pkt
AcceptTakes(e, pkt) ==
    /\ pc[e] = "accept_wait"
    /\ \/ net[e] # <<>> /\ pkt = Head(net[e]) /\ accept_readable(e)
       \/ pkt \in StrayPackets /\ stray(e, pkt)

\* pkt is a connection request: flags exactly SYN, with the SYN payload
IsSyn(pkt) == pkt.flags = RUDP_FLAG_SYN /\ pkt.length = SYN_PACKET_SIZE

\* endpoint e stays blocked in accept, not connected, with the peer address
\* and the peer MTU it had
KeepsAccepting(e) ==
    /\ pc'[e] = "accept_wait"
    /\ ~m_isConnected'[e]
    /\ m_destinationAddress4'[e] = m_destinationAddress4[e]
    /\ m_peersMTU'[e] = m_peersMTU[e]

\* C34: accept returns success only on a valid datagram whose flags are
\* exactly SYN and which carries the SYN payload; on any other datagram it
\* sets neither m_isConnected nor the peer address nor the peer MTU and
\* keeps blocking.
C34_AcceptOnlyOnSyn ==
    [][\A e \in Endpoints : \A pkt \in Readable(e) :
          AcceptTakes(e, pkt)
          => /\ pc'[e] = "returned" /\ ret'[e] = 1 => IsSyn(pkt)
             /\ ~IsSyn(pkt) => KeepsAccepting(e)]_vars

\* C35: a datagram whose flags are exactly FIN, taken by a server that is
\* not connected and blocked in accept, is dropped: accept keeps waiting and
\* does not return failure because of it.
C35_FinInAccept ==
    [][\A e \in Endpoints : \A pkt \in Readable(e) :
          AcceptTakes(e, pkt) /\ pkt.flags = RUDP_FLAG_FIN
          => KeepsAccepting(e) /\ ret'[e] = ret[e]]_vars

\* in this step endpoint e, waiting in disconnect for FIN|ACK, takes the FIN
\* of its peer's own disconnect
CrossingFin(e) ==
    /\ pc[e] = "disconnect_poll"
    /\ net[e] # <<>>
    /\ Head(net[e]).src = m_destinationAddress4[e]
    /\ Head(net[e]).flags = RUDP_FLAG_FIN
    /\ disconnect_readable(e)

\* C36: when the FIN of the peer's own disconnect arrives while an endpoint
\* waits in disconnect for FIN|ACK, disconnect takes it as the peer closing
\* and returns success on it, without spending the rest of its retries.
C36_SimultaneousTeardown ==
    [][\A e \in Endpoints :
          CrossingFin(e)
          => /\ pc'[e] = "returned"
             /\ ret'[e] = 1
             /\ ~m_isConnected'[e]
             /\ loc'[e].num_of_tries = loc[e].num_of_tries]_vars

\* in this step the send of endpoint e reads a datagram and counts the
\* segment in flight as acknowledged
TakesAsAck(e) ==
    /\ pc[e] = "send_poll"
    /\ net[e] # <<>>
    /\ send_readable(e)
    /\ loc'[e].total_packets = loc[e].total_packets + 1

\* C37: in its wait for an ACK, send goes on to the next segment only on a
\* datagram of the peer whose flags are exactly ACK; a data packet (PSH or
\* PSH|LAST) of the peer is never counted as the acknowledgement of the
\* segment in flight.
C37_OnlyAckAcknowledges ==
    [][\A e \in Endpoints :
          TakesAsAck(e)
          => /\ Head(net[e]).src = m_destinationAddress4[e]
             /\ Head(net[e]).flags = RUDP_FLAG_ACK]_vars

\* the client's first connect and the server's first accept, which saw
\* datagrams of each other only, have both returned
AttemptOver ==
    /\ strays = 0
    /\ calls["client"] = 1 /\ op["client"] = "connect" /\ pc["client"] = "returned"
    /\ calls["server"] = 1 /\ op["server"] = "accept" /\ pc["server"] = "returned"

\* C38: once connect on the client and accept on the server have both
\* returned for the same attempt, either both endpoints are connected or
\* neither is; when connect returned false because its retries ran out, the
\* server is not left connected to that client.
C38_HandshakeAgreement ==
    AttemptOver
    => /\ m_isConnected["client"] = m_isConnected["server"]
       /\ ConnectGaveUp("client") => ~m_isConnected["server"]

\* a step of the recv call of endpoint e
RecvStep(e) == recv_first_readable(e) \/ recv_timeout(e) \/ recv_readable(e)

\* the sequence numbers of the segments the recv of endpoint e has accepted
\* in this call
AcceptedSeqNums(e) ==
    {obs[e].accepted[k].seq_num : k \in 1 .. Len(obs[e].accepted)}

\* C39: every ACK a recv call transmits carries prev_seq_num as it is when
\* the ACK is sent, the sequence number of the segment accepted last; recv
\* sends no ACK for a sequence number it has not accepted in this call.
C39_AcksNameAccepted ==
    /\ [](\A e \in Endpoints : op[e] = "recv" => obs[e].acked \subseteq AcceptedSeqNums(e))
    /\ [][\A e \in Endpoints :
             RecvStep(e) /\ net'[Peer(e)] # net[Peer(e)]
             => /\ obs'[e].accepted # <<>>
                /\ loc'[e].prev_seq_num
                      = obs'[e].accepted[Len(obs'[e].accepted)].seq_num
                /\ net'[Peer(e)]
                      = Append(net[Peer(e)], ack_packet(e, loc'[e].prev_seq_num).pkt)]_vars

\* a recv that has accepted segments 0 and 1 and acknowledged each has an
\* ACK of segment 1 on the way to a sender that is at segment 0 of its next
\* message
C39_Witness ==
    /\ op["server"] = "recv"
    /\ pc["server"] = "recv_poll"
    /\ AcceptedSeqNums("server") = {0, 1}
    /\ obs["server"].acked = {0, 1}
    /\ loc["server"].prev_seq_num = 1
    /\ calls["client"] = 2
    /\ pc["client"] = "send_poll"
    /\ loc["client"].total_packets = 0
    /\ net["client"] # <<>>
    /\ net["client"][Len(net["client"])].flags = RUDP_FLAG_ACK
    /\ net["client"][Len(net["client"])].seq_num = 1

\* the flags the operation endpoint e is blocked in expects of its next
\* datagram
ExpectedFlags(e) ==
    CASE pc[e] = "connect_poll" -> RUDP_FLAG_SYN + RUDP_FLAG_ACK
      [] pc[e] = "accept_wait" -> RUDP_FLAG_SYN
      [] pc[e] = "disconnect_poll" -> RUDP_FLAG_FIN + RUDP_FLAG_ACK
      [] pc[e] = "send_poll" -> RUDP_FLAG_ACK
      [] pc[e] \in {"recv_first", "recv_poll"} -> RUDP_FLAG_PSH
      [] OTHER -> 0

\* in this step the operation of endpoint e reads a datagram of its peer for
\* which _check_packet_validity returns 0
Drops(e) ==
    /\ net[e] # <<>>
    /\ Head(net[e]).src = Peer(e)
    /\ pc[e] = "accept_wait" \/ ~check_packet_source(e, Head(net[e]))
    /\ check_packet_validity(e, Head(net[e]), ExpectedFlags(e)) = 0
    /\ \/ connect_readable(e)
       \/ accept_readable(e)
       \/ disconnect_readable(e)
       \/ send_readable(e)
       \/ recv_first_readable(e)
       \/ recv_readable(e)

\* the flags of the packet the operation of endpoint e transmits again when
\* it retries, 0 if it transmits none
RetryFlags(e) ==
    CASE pc[e] = "connect_poll" -> RUDP_FLAG_SYN
      [] pc[e] = "disconnect_poll" -> RUDP_FLAG_FIN
      [] pc[e] = "send_poll" -> RUDP_FLAG_PSH
      [] OTHER -> 0

\* in this step nothing goes to the peer of e or to any other host, except
\* that an operation which retries may transmit its own packet again
NoReply(e) ==
    /\ outside' = outside
    /\ \/ net'[Peer(e)] = net[Peer(e)]
       \/ /\ RetryFlags(e) # 0
          /\ pc'[e] = pc[e]
          /\ Len(net'[Peer(e)]) = Len(net[Peer(e)]) + 1
          /\ Slice(net'[Peer(e)], 0, Len(net[Peer(e)])) = net[Peer(e)]
          /\ HasFlag(net'[Peer(e)][Len(net'[Peer(e)])].flags, RetryFlags(e))
          /\ ~HasFlag(net'[Peer(e)][Len(net'[Peer(e)])].flags, RUDP_FLAG_ACK)

\* the operation of endpoint e goes on waiting, one try further
NextRetry(e) ==
    /\ pc'[e] = pc[e]
    /\ ret'[e] = ret[e]
    /\ m_isConnected'[e] = m_isConnected[e]
    /\ m_destinationAddress4'[e] = m_destinationAddress4[e]
    /\ loc'[e].num_of_tries
          = IF pc[e] = "accept_wait" THEN loc[e].num_of_tries ELSE loc[e].num_of_tries + 1

\* the operation of endpoint e ends as it does when its last try times out:
\* connect returns false, disconnect returns true and clears the connection,
\* send and recv throw
RetriesOver(e) ==
    /\ net'[Peer(e)] = net[Peer(e)]
    /\ CASE pc[e] = "connect_poll" ->
               pc'[e] = "returned" /\ ret'[e] = 0 /\ ~m_isConnected'[e]
         [] pc[e] = "disconnect_poll" ->
               /\ pc'[e] = "returned" /\ ret'[e] = 1 /\ ~m_isConnected'[e]
               /\ m_destinationAddress4'[e] = ZeroAddress
         [] OTHER ->
               /\ pc'[e] = "thrown"
               /\ m_isConnected'[e] = m_isConnected[e]
               /\ m_destinationAddress4'[e] = m_destinationAddress4[e]

\* C40: when _check_packet_validity returns 0 for a datagram of the peer,
\* the peer MTU, the user buffer and prev_seq_num stay as they are and no
\* packet is sent in reply; the operation goes on with its next try, with
\* m_isConnected and the peer address as they were, and returns no error for
\* the datagram: it ends in this step only if this was its last try.
C40_BadPacketsSilent ==
    [][\A e \in Endpoints :
          Drops(e)
          => /\ m_peersMTU'[e] = m_peersMTU[e]
             /\ loc'[e].buffer = loc[e].buffer
             /\ loc'[e].prev_seq_num = loc[e].prev_seq_num
             /\ NoReply(e)
             /\ IF \/ pc[e] = "accept_wait"
                   \/ loc[e].num_of_tries + 1 < m_protocolMaximumRetries[e]
                THEN NextRetry(e)
                ELSE RetriesOver(e)]_vars

\* a recv that waits for its first segment has dropped a datagram and waits
\* on: its first loop counts nothing but dropped datagrams
C40_Witness ==
    \E e \in Endpoints :
        op[e] = "recv" /\ pc[e] = "recv_first" /\ loc[e].num_of_tries = 1

====
